---- MODULE Spec2Model ----
(***************************************************************************)
(* Bounded-step tool-calling agent loops of UniAgent-AFM:                  *)
(*   math_agent/agent.py        (strict names, carry r kept in env)        *)
(*   Math_agent/agent.py        (question variables, carry r, re-prompt)   *)
(*   Math_agent/agent_clean.py  (question variables only)                  *)
(*   legal_agent/agent.py       (document tools)                           *)
(* Text is a sequence of one-character strings; a number is an exact       *)
(* rational <<n, d>> with d > 0 in lowest terms (the floats the menus      *)
(* below produce are all exactly representable).                           *)
(***************************************************************************)
EXTENDS Integers, Sequences, FiniteSets, TLC

\* ------------------------------------------------------------------ bounds
\* Largest step budget (max_steps) a run is started with.
MaxBudget == 3

\* ------------------------------------------------------------ characters
Digit == {"0", "1", "2", "3", "4", "5", "6", "7", "8", "9"}

Lower == {"a", "b", "c", "d", "e", "f", "g", "h", "i", "j", "k", "l", "m",
          "n", "o", "p", "q", "r", "s", "t", "u", "v", "w", "x", "y", "z"}

Upper == {"A", "B", "C", "D", "E", "F", "G", "H", "I", "J", "K", "L", "M",
          "N", "O", "P", "Q", "R", "S", "T", "U", "V", "W", "X", "Y", "Z"}

Letter == Lower \cup Upper

WordChar == Letter \cup Digit \cup {"_"}

Space == {" ", "\t", "\n", "\r"}

DigitVal(c) ==
  CASE c = "0" -> 0 [] c = "1" -> 1 [] c = "2" -> 2 [] c = "3" -> 3
    [] c = "4" -> 4 [] c = "5" -> 5 [] c = "6" -> 6 [] c = "7" -> 7
    [] c = "8" -> 8 [] c = "9" -> 9

\* str.lower() on one character (ASCII letters only).
LowerChar(c) ==
  CASE c = "A" -> "a" [] c = "B" -> "b" [] c = "C" -> "c" [] c = "D" -> "d"
    [] c = "E" -> "e" [] c = "F" -> "f" [] c = "G" -> "g" [] c = "H" -> "h"
    [] c = "I" -> "i" [] c = "J" -> "j" [] c = "K" -> "k" [] c = "L" -> "l"
    [] c = "M" -> "m" [] c = "N" -> "n" [] c = "O" -> "o" [] c = "P" -> "p"
    [] c = "Q" -> "q" [] c = "R" -> "r" [] c = "S" -> "s" [] c = "T" -> "t"
    [] c = "U" -> "u" [] c = "V" -> "v" [] c = "W" -> "w" [] c = "X" -> "x"
    [] c = "Y" -> "y" [] c = "Z" -> "z" [] OTHER -> c

StrLower(s) == [i \in 1..Len(s) |-> LowerChar(s[i])]

\* s[i:j] of Python with 0 <= i, j <= len(s), on 1-based sequences.
Slice(s, i, j) == IF j <= i THEN <<>> ELSE SubSeq(s, i + 1, j)

\* str.strip(chars): drop leading and trailing characters of the set.
StripSet(s, cs) ==
  LET keep == {i \in 1..Len(s) : s[i] \notin cs}
  IN IF keep = {} THEN <<>>
     ELSE LET lo == CHOOSE i \in keep : \A j \in keep : i <= j
              hi == CHOOSE i \in keep : \A j \in keep : j <= i
          IN SubSeq(s, lo, hi)

\* str.strip()
Strip(s) == StripSet(s, Space)

\* --------------------------------------------------------------- numbers
Abs(n) == IF n < 0 THEN -n ELSE n

RECURSIVE GCD(_, _)
GCD(a, b) == IF b = 0 THEN a ELSE GCD(b, a % b)

\* The rational n/d in lowest terms with a positive denominator.
Rat(n, d) ==
  LET s == IF d < 0 THEN -1 ELSE 1
      g == GCD(Abs(n), Abs(d))
  IN <<(s * n) \div g, (s * d) \div g>>

Int2Rat(n) == <<n, 1>>

RAdd(p, q) == Rat(p[1] * q[2] + q[1] * p[2], p[2] * q[2])
RSub(p, q) == Rat(p[1] * q[2] - q[1] * p[2], p[2] * q[2])
RMul(p, q) == Rat(p[1] * q[1], p[2] * q[2])
RDiv(p, q) == Rat(p[1] * q[2], p[2] * q[1])
RLt(p, q)  == p[1] * q[2] < q[1] * p[2]
RIsZero(p) == p[1] = 0
RIsInt(p)  == p[2] = 1

RECURSIVE IntPow(_, _)
IntPow(b, e) == IF e = 0 THEN 1 ELSE b * IntPow(b, e - 1)

\* The exact root of a perfect square (the menus only take roots of those).
ISqrt(n) == CHOOSE r \in 0..n : r * r = n
RSqrt(p) == Rat(ISqrt(p[1]), ISqrt(p[2]))

\* --------------------------------------------------- numeric literals
IsDigits(s) == Len(s) > 0 /\ \A i \in 1..Len(s) : s[i] \in Digit

RECURSIVE DecValue(_)
DecValue(s) ==
  IF Len(s) = 0 THEN 0
  ELSE 10 * DecValue(SubSeq(s, 1, Len(s) - 1)) + DigitVal(s[Len(s)])

Unsigned(s) == IF Len(s) > 0 /\ s[1] \in {"+", "-"} THEN Tail(s) ELSE s

DotAt(s) == {i \in 1..Len(s) : s[i] = "."}

\* re.fullmatch(r"[+-]?\d+(\.\d+)?", s)
IsStrictNumeral(s) ==
  LET u == Unsigned(s)
  IN \/ IsDigits(u)
     \/ \E i \in DotAt(u) : /\ IsDigits(SubSeq(u, 1, i - 1))
                            /\ IsDigits(SubSeq(u, i + 1, Len(u)))

\* The decimal numerals float(s) accepts once s is stripped: an optional
\* sign, then digits with an optional point on either side ("4", "4.", ".5",
\* "-3.5").  Exponent forms, inf and nan are not drawn by the menus.
IsFloatNumeral(s) ==
  LET u == Unsigned(s)
  IN \/ IsDigits(u)
     \/ \E i \in DotAt(u) :
          LET ip == SubSeq(u, 1, i - 1)
              fp == SubSeq(u, i + 1, Len(u))
          IN /\ Len(ip) + Len(fp) > 0
             /\ (Len(ip) = 0 \/ IsDigits(ip))
             /\ (Len(fp) = 0 \/ IsDigits(fp))

\* float(s) for a numeral s.
FloatOf(s) ==
  LET u   == Unsigned(s)
      sg  == IF Len(s) > 0 /\ s[1] = "-" THEN -1 ELSE 1
      dot == IF DotAt(u) = {} THEN Len(u) + 1 ELSE CHOOSE i \in DotAt(u) : TRUE
      ip  == SubSeq(u, 1, dot - 1)
      fp  == SubSeq(u, dot + 1, Len(u))
  IN Rat(sg * (DecValue(ip) * IntPow(10, Len(fp)) + DecValue(fp)),
         IntPow(10, Len(fp)))

\* ------------------------------------ question variables (Math_agent)
\* \b between s[i-1] and s[i] (1-based, i in 1..Len(s)+1).
IsWordAt(s, i) == i >= 1 /\ i <= Len(s) /\ s[i] \in WordChar
Boundary(s, i) == IsWordAt(s, i - 1) # IsWordAt(s, i)

RECURSIVE SkipSpace(_, _)
SkipSpace(s, i) ==
  IF i <= Len(s) /\ s[i] \in Space THEN SkipSpace(s, i + 1) ELSE i

RECURSIVE DigitsEnd(_, _)
DigitsEnd(s, i) ==
  IF i <= Len(s) /\ s[i] \in Digit THEN DigitsEnd(s, i + 1) ELSE i

\* ASSIGN_RE = \b([a-zA-Z])\s*=\s*(-?\d+(?:\.\d+)?)\b matched at position i:
\* <<end, first, last>> with the number in s[first..last] and the scan
\* resuming at end, or <<0, 0, 0>> when there is no match at i.
MatchAssign(s, i) ==
  LET eq == SkipSpace(s, i + 1)
      v0 == SkipSpace(s, eq + 1)
      d0 == IF v0 <= Len(s) /\ s[v0] = "-" THEN v0 + 1 ELSE v0
      d1 == DigitsEnd(s, d0)
      f1 == DigitsEnd(s, d1 + 1)
  IN IF ~(/\ i <= Len(s) /\ s[i] \in Letter /\ Boundary(s, i)
          /\ eq <= Len(s) /\ s[eq] = "="
          /\ d1 > d0)
     THEN <<0, 0, 0>>
     ELSE IF d1 <= Len(s) /\ s[d1] = "." /\ f1 > d1 + 1 /\ Boundary(s, f1)
     THEN <<f1, v0, f1 - 1>>
     ELSE IF Boundary(s, d1)
     THEN <<d1, v0, d1 - 1>>
     ELSE <<0, 0, 0>>

EmptyEnv == [v \in {} |-> <<0, 1>>]

Bind(env, var, val) ==
  [v \in DOMAIN env \cup {var} |-> IF v = var THEN val ELSE env[v]]

\* for var, val in ASSIGN_RE.findall(question): env[var] = float(val)
RECURSIVE ScanAssign(_, _, _)
ScanAssign(s, i, env) ==
  IF i > Len(s) THEN env
  ELSE LET m == MatchAssign(s, i)
       IN IF m[1] = 0 THEN ScanAssign(s, i + 1, env)
          ELSE ScanAssign(s, m[1],
                          Bind(env, s[i], FloatOf(SubSeq(s, m[2], m[3]))))

extract_env_vars(question) == ScanAssign(question, 1, EmptyEnv)

\* ------------------------------------------------------------ JSON values
\* A JSON value as the planner supplies it and as a tool returns it: kind k,
\* with the number in n, the text in s or the document list in l.
JNull    == [k |-> "null", n |-> <<0, 1>>, s |-> <<>>, l |-> <<>>]
JNum(q)  == [k |-> "num",  n |-> q,        s |-> <<>>, l |-> <<>>]
JStr(s)  == [k |-> "str",  n |-> <<0, 1>>, s |-> s,    l |-> <<>>]
JList    == [k |-> "list", n |-> <<0, 1>>, s |-> <<>>, l |-> <<>>]
JDocs(l) == [k |-> "docs", n |-> <<0, 1>>, s |-> <<>>, l |-> l]

NoArgs == [key \in {} |-> JNull]

\* dict.get(key) with the default None
Get(args, key) == IF key \in DOMAIN args THEN args[key] ELSE JNull

\* The outcome of a call: exc = "none" and the value v, or the exception.
Ok(v)      == [exc |-> "none", v |-> v]
Raise(exc) == [exc |-> exc, v |-> JNull]

\* ------------------------------------------------------------ tool names
n_add      == <<"a", "d", "d">>
n_subtract == <<"s", "u", "b", "t", "r", "a", "c", "t">>
n_multiply == <<"m", "u", "l", "t", "i", "p", "l", "y">>
n_divide   == <<"d", "i", "v", "i", "d", "e">>
n_square   == <<"s", "q", "u", "a", "r", "e">>
n_power    == <<"p", "o", "w", "e", "r">>
n_sqrt     == <<"s", "q", "r", "t">>
n_round    == <<"r", "o", "u", "n", "d">>
n_stop     == <<"s", "t", "o", "p">>
n_retrieve == <<"r", "e", "t", "r", "i", "e", "v", "e">>
n_quote    == <<"q", "u", "o", "t", "e">>
n_summarize == <<"s", "u", "m", "m", "a", "r", "i", "z", "e">>
n_compare  == <<"c", "o", "m", "p", "a", "r", "e">>

\* --------------------------------------------------- arithmetic tools
Floor(q) == q[1] \div q[2]

\* Python's round(b) of a float: to the nearest integer, ties to even.
PyRound(q) ==
  LET f == Floor(q)
      r == RSub(q, Int2Rat(f))
  IN IF RLt(r, <<1, 2>>) THEN f
     ELSE IF RLt(<<1, 2>>, r) THEN f + 1
     ELSE IF f % 2 = 0 THEN f ELSE f + 1

\* abs(b - r) > 1e-12, r being b rounded to an integer
FarFrom(b, r) ==
  LET d == RSub(b, Int2Rat(r))
  IN d[1] # 0 /\ ((d[2] \div Abs(d[1])) \div 1000000) < 1000000

\* a ** b on floats, for an integer b or a half-integer b on a square.
PyPow(a, b) ==
  IF RIsInt(b)
  THEN IF b[1] >= 0
       THEN Ok(JNum(Rat(IntPow(a[1], b[1]), IntPow(a[2], b[1]))))
       ELSE IF RIsZero(a) THEN Raise("ZeroDivisionError")
       ELSE Ok(JNum(Rat(IntPow(a[2], -b[1]), IntPow(a[1], -b[1]))))
  ELSE IF RIsZero(a)
       THEN IF b[1] > 0 THEN Ok(JNum(<<0, 1>>)) ELSE Raise("ZeroDivisionError")
       ELSE CASE b[2] = 2 ->
              LET rt == RSqrt(a)
              IN IF b[1] >= 0
                 THEN Ok(JNum(Rat(IntPow(rt[1], b[1]), IntPow(rt[2], b[1]))))
                 ELSE Ok(JNum(Rat(IntPow(rt[2], -b[1]), IntPow(rt[1], -b[1]))))

\* Rounding that sends a tie to the even neighbour.
HalfUp_Even(x, ndigits) ==
  LET sc  == IF ndigits >= 0 THEN <<IntPow(10, ndigits), 1>>
             ELSE <<1, IntPow(10, -ndigits)>>
  IN RDiv(Int2Rat(PyRound(RMul(x, sc))), sc)

\* Decimal(str(x)).quantize(Decimal("1").scaleb(-ndigits), ROUND_HALF_UP)
HalfUp(x, ndigits) ==
  LET sc  == IF ndigits >= 0 THEN <<IntPow(10, ndigits), 1>>
             ELSE <<1, IntPow(10, -ndigits)>>
      y   == RMul(<<Abs(x[1]), x[2]>>, sc)
      m   == Floor(RAdd(y, <<1, 2>>))
      sg  == IF x[1] < 0 THEN -1 ELSE 1
  IN RDiv(Int2Rat(sg * m), sc)

round_half_up(x, ndigits) == Ok(JNum(HalfUp(x, ndigits)))

add(a, b)      == Ok(JNum(RAdd(a, b)))
subtract(a, b) == Ok(JNum(RSub(a, b)))
multiply(a, b) == Ok(JNum(RMul(a, b)))
divide(a, b)   == IF RIsZero(b) THEN Raise("ValueError") ELSE Ok(JNum(RDiv(a, b)))
square(x)      == Ok(JNum(RMul(x, x)))
sqrt(x)        == IF RLt(x, <<0, 1>>) THEN Raise("ValueError")
                  ELSE Ok(JNum(RSqrt(x)))

\* Math_agent/tools.py power: round is Python's builtin.
Math_power(a, b) ==
  IF RLt(a, <<0, 1>>) /\ FarFrom(b, PyRound(b)) THEN Raise("ValueError")
  ELSE PyPow(a, b)

\* math_agent/tools.py power: round is the module's own half-up round.
math_power(a, b) ==
  IF RLt(a, <<0, 1>>) /\ FarFrom(b, Floor(HalfUp(b, 0))) THEN Raise("ValueError")
  ELSE PyPow(a, b)

\* f(**kwargs): every required parameter given and no unknown keyword.
Binds(kwargs, required, optional) ==
  required \subseteq DOMAIN kwargs /\ DOMAIN kwargs \subseteq required \cup optional

\* run_tool of both arithmetic registries (own_round: the registry whose
\* power sees the module's own round); kwargs maps parameter names to
\* numbers.
ArithTool(name, kwargs, own_round) ==
  LET ab == Binds(kwargs, {"a", "b"}, {})
      x  == Binds(kwargs, {"x"}, {})
  IN CASE name = n_add ->
            IF ab THEN add(kwargs["a"], kwargs["b"]) ELSE Raise("TypeError")
       [] name = n_subtract ->
            IF ab THEN subtract(kwargs["a"], kwargs["b"]) ELSE Raise("TypeError")
       [] name = n_multiply ->
            IF ab THEN multiply(kwargs["a"], kwargs["b"]) ELSE Raise("TypeError")
       [] name = n_divide ->
            IF ab THEN divide(kwargs["a"], kwargs["b"]) ELSE Raise("TypeError")
       [] name = n_square ->
            IF x THEN square(kwargs["x"]) ELSE Raise("TypeError")
       [] name = n_power ->
            IF ~ab THEN Raise("TypeError")
            ELSE IF own_round THEN math_power(kwargs["a"], kwargs["b"])
            ELSE Math_power(kwargs["a"], kwargs["b"])
       [] name = n_sqrt ->
            IF x THEN sqrt(kwargs["x"]) ELSE Raise("TypeError")
       [] name = n_stop -> Ok(JNull)
       [] OTHER -> Raise("ToolError")

\* Math_agent/tools.py run_tool
Math_run_tool(name, kwargs) == ArithTool(name, kwargs, FALSE)

\* math_agent/tools.py run_tool: the same branches and round.
math_run_tool(name, kwargs) ==
  IF name = n_round
  THEN IF Binds(kwargs, {"x"}, {"ndigits"})
       THEN round_half_up(kwargs["x"],
                          IF "ndigits" \in DOMAIN kwargs THEN kwargs["ndigits"][1] ELSE 0)
       ELSE Raise("TypeError")
  ELSE ArithTool(name, kwargs, TRUE)

\* ------------------------------------------------------- document tools
\* legal_agent/tools.py _STOP
STOP ==
  {<<"t", "h", "e">>, <<"a">>, <<"a", "n">>, <<"a", "n", "d">>, <<"o", "r">>,
   <<"b", "u", "t">>, <<"i", "f">>, <<"i", "n">>, <<"o", "n">>, <<"t", "o">>,
   <<"o", "f">>, <<"f", "o", "r">>, <<"b", "y">>, <<"w", "i", "t", "h">>,
   <<"a", "s">>, <<"a", "t">>, <<"f", "r", "o", "m">>,
   <<"t", "h", "i", "s">>, <<"t", "h", "a", "t">>,
   <<"t", "h", "o", "s", "e">>, <<"t", "h", "e", "s", "e">>, <<"i", "s">>,
   <<"a", "r", "e">>, <<"w", "a", "s">>, <<"w", "e", "r", "e">>,
   <<"b", "e">>, <<"b", "e", "e", "n">>, <<"b", "e", "i", "n", "g">>,
   <<"i", "t">>, <<"i", "t", "s">>}

\* The characters of the corpus and the queries in code-point order.
Alphabet ==
  <<" ", "0", "1", "2", "3", "4", "5", "6", "7", "8", "9", "A", "B", "C", "D", "E",
    "F", "G", "H", "I", "J", "K", "L", "M", "N", "O", "P", "Q", "R", "S", "T", "U",
    "V", "W", "X", "Y", "Z", "_", "a", "b", "c", "d", "e", "f", "g", "h", "i", "j",
    "k", "l", "m", "n", "o", "p", "q", "r", "s", "t", "u", "v", "w", "x", "y", "z">>

Code(c) == CHOOSE i \in 1..Len(Alphabet) : Alphabet[i] = c

\* s < t on Python strings: lexicographic by code point.
RECURSIVE StrLess(_, _)
StrLess(s, t) ==
  IF t = <<>> THEN FALSE
  ELSE IF s = <<>> THEN TRUE
  ELSE IF Head(s) = Head(t) THEN StrLess(Tail(s), Tail(t))
  ELSE Code(Head(s)) < Code(Head(t))

\* re.findall(pattern, s) for a pattern [class]+ (inv = FALSE) or
\* [^class]+ (inv = TRUE): the maximal runs of matching characters.
RECURSIVE Runs(_, _, _, _)
Runs(s, cs, inv, cur) ==
  IF s = <<>> THEN (IF cur = <<>> THEN <<>> ELSE <<cur>>)
  ELSE IF (Head(s) \in cs) # inv THEN Runs(Tail(s), cs, inv, Append(cur, Head(s)))
  ELSE (IF cur = <<>> THEN <<>> ELSE <<cur>>) \o Runs(Tail(s), cs, inv, <<>>)

\* _tokens(s)
tokens(s) ==
  LET keep(t) == t \notin STOP
  IN SelectSeq(Runs(StrLower(s), Lower \cup Digit, FALSE, <<>>), keep)

\* The number of the words ws that are in the set among.
Count(ws, among) == Len(SelectSeq(ws, LAMBDA w : w \in among))

\* _score(query, text)
score(query, text) ==
  LET q == {tokens(query)[i] : i \in 1..Len(tokens(query))}
  IN Count(tokens(text), q)

\* dkey(d) < dkey(e)
DkeyLess(d, e) ==
  \/ StrLess(d.doc_id, e.doc_id)
  \/ d.doc_id = e.doc_id /\ StrLess(d.title, e.title)

\* A sort by descending score alone.
ScoredLess_NoTieBreak(p, q) == p.s > q.s

\* The order of scored.sort(key=lambda x: (-x[0], dkey(x[1])))
ScoredLess(p, q) == p.s > q.s \/ (p.s = q.s /\ DkeyLess(p.d, q.d))

\* list.sort (stable) of the scored pairs: each element is inserted after
\* the elements that are not greater.
RECURSIVE InsertSorted(_, _)
InsertSorted(srt, e) ==
  IF srt = <<>> THEN <<e>>
  ELSE IF ScoredLess(e, Head(srt)) THEN <<e>> \o srt
  ELSE <<Head(srt)>> \o InsertSorted(Tail(srt), e)

RECURSIVE StableSort(_)
StableSort(s) ==
  IF s = <<>> THEN <<>>
  ELSE InsertSorted(StableSort(SubSeq(s, 1, Len(s) - 1)), s[Len(s)])

\* s[:k] of Python for any integer k.
SliceTo(s, k) ==
  IF k >= 0 THEN SubSeq(s, 1, IF k < Len(s) THEN k ELSE Len(s))
  ELSE SubSeq(s, 1, IF Len(s) + k > 0 THEN Len(s) + k ELSE 0)

\* retrieve(query, k) over the loaded collection docs
retrieve(docs, query, k) ==
  LET scored == [i \in 1..Len(docs) |->
                   [s |-> score(query, docs[i].title \o <<" ">> \o docs[i].text),
                    d |-> docs[i]]]
      srt == StableSort(scored)
      pos(p) == p.s > 0
      top == SliceTo(SelectSeq(srt, pos), k)
      out == IF top # <<>> THEN top ELSE SliceTo(srt, k)
  IN [i \in 1..Len(out) |-> out[i].d]

\* legal_agent/tools.py quote: MAX_SPAN
MAX_SPAN == 400

\* The clamped bounds <<start, end>> of quote for a text of length n.
QuoteSpan(n, start0, end0) ==
  LET s1 == IF start0 < 0 THEN 0 ELSE start0
      e1 == IF end0 < 0 THEN 0 ELSE end0
      s2 == IF s1 > n THEN n ELSE s1
      e2 == IF e1 > n THEN n ELSE e1
      e3 == IF e2 < s2 THEN s2 ELSE e2
      e4 == IF e3 - s2 > MAX_SPAN THEN s2 + MAX_SPAN ELSE e3
  IN <<s2, e4>>

\* quote(doc_id, start, end) on the document files: ToolError for an id
\* that does not start with CH or names no file.
quote(files, doc_id, start, end) ==
  LET found == {i \in 1..Len(files) : files[i].doc_id = doc_id}
  IN IF ~(Len(doc_id) >= 2 /\ SubSeq(doc_id, 1, 2) = <<"C", "H">>)
     THEN Raise("ToolError")
     ELSE IF found = {} THEN Raise("ToolError")
     ELSE LET text == files[CHOOSE i \in found : TRUE].text
              sp   == QuoteSpan(Len(text), start, end)
          IN Ok(JStr(Slice(text, sp[1], sp[2])))

\* " ".join(words)
RECURSIVE JoinSpace(_)
JoinSpace(ws) ==
  IF ws = <<>> THEN <<>>
  ELSE IF Len(ws) = 1 THEN ws[1]
  ELSE ws[1] \o <<" ">> \o JoinSpace(Tail(ws))

\* summarize(text, max_words): the first words of re.findall(r"\S+", text)
summarize(text, max_words) ==
  JoinSpace(SliceTo(Runs(text, Space, TRUE, <<>>), max_words))

\* compare(text_a, text_b, criterion)
compare(text_a, text_b, criterion) ==
  LET cw == {tokens(criterion)[i] : i \in 1..Len(tokens(criterion))}
      a_hits == Count(tokens(text_a), cw)
      b_hits == Count(tokens(text_b), cw)
  IN IF a_hits # b_hits THEN (IF a_hits > b_hits THEN <<"A">> ELSE <<"B">>)
     ELSE IF Len(text_a) >= Len(text_b) THEN <<"A">> ELSE <<"B">>

\* ------------------------------------------------- argument resolution
\* The outcome of resolving one argument: exc = "none" and the number q.
Res(q)      == [exc |-> "none", q |-> q]
ResFail(e)  == [exc |-> e, q |-> <<0, 1>>]

\* None, for last_value before the first tool result.
None == <<>>

\* A resolver that looks "r" up in the environment like any other symbol.
Math_resolve_arg_NoCarry(val, env, last_value) ==
  IF val.k = "num" THEN Res(val.n)
  ELSE IF val.k = "str"
  THEN LET s == Strip(val.s)
       IN IF IsFloatNumeral(s) THEN Res(FloatOf(s))
          ELSE IF Len(s) = 1 /\ s[1] \in DOMAIN env THEN Res(env[s[1]])
          ELSE ResFail("ValueError")
  ELSE ResFail("ValueError")

\* A resolution that looks the symbol up in the question's variables before
\* it considers the carry.
Math_resolve_arg_EnvFirst(val, env, last_value) ==
  IF val.k = "num" THEN Res(val.n)
  ELSE IF val.k = "str"
  THEN LET s == Strip(val.s)
       IN IF Len(s) = 1 /\ s[1] \in DOMAIN env THEN Res(env[s[1]])
          ELSE IF s = <<"r">>
          THEN IF last_value = None THEN ResFail("ValueError") ELSE Res(last_value)
          ELSE IF IsFloatNumeral(s) THEN Res(FloatOf(s))
          ELSE ResFail("ValueError")
  ELSE ResFail("ValueError")

\* Math_agent/agent.py resolve_arg(val, env, last_value)
Math_resolve_arg(val, env, last_value) ==
  IF val.k = "num" THEN Res(val.n)
  ELSE IF val.k = "str"
  THEN LET s == Strip(val.s)
       IN IF s = <<"r">>
          THEN IF last_value = None THEN ResFail("ValueError") ELSE Res(last_value)
          ELSE IF IsFloatNumeral(s) THEN Res(FloatOf(s))
          ELSE IF Len(s) = 1 /\ s[1] \in DOMAIN env THEN Res(env[s[1]])
          ELSE ResFail("ValueError")
  ELSE ResFail("ValueError")

\* Math_agent/agent_clean.py resolve_arg(val, env)
clean_resolve_arg(val, env) ==
  IF val.k = "num" THEN Res(val.n)
  ELSE IF val.k = "str"
  THEN LET s == Strip(val.s)
       IN IF IsFloatNumeral(s) THEN Res(FloatOf(s))
          ELSE IF Len(s) = 1 /\ s[1] \in DOMAIN env THEN Res(env[s[1]])
          ELSE ResFail("ValueError")
  ELSE ResFail("ValueError")

\* math_agent/agent.py _to_float(x)
to_float(val) ==
  IF val.k = "num" THEN Res(val.n)
  ELSE IF val.k = "str" /\ IsStrictNumeral(Strip(val.s)) THEN Res(FloatOf(Strip(val.s)))
  ELSE ResFail("ValueError")

\* math_agent/agent.py resolve_arg(val, env): env holds only the carry "r".
math_resolve_arg(val, env) ==
  IF val.k = "num" THEN Res(val.n)
  ELSE IF val.k = "str"
  THEN LET v == Strip(val.s)
       IN IF StrLower(v) = <<"r">>
          THEN IF "r" \notin DOMAIN env THEN ResFail("ValueError") ELSE Res(env["r"])
          ELSE to_float(JStr(v))
  ELSE to_float(val)

\* The first failure among the resolutions rs (a function over keys taken
\* in the order ks), or "none".
RECURSIVE FirstExc(_, _)
FirstExc(rs, ks) ==
  IF ks = <<>> THEN "none"
  ELSE IF rs[Head(ks)].exc # "none" THEN rs[Head(ks)].exc
  ELSE FirstExc(rs, Tail(ks))

\* int(x) of a float: truncation toward zero.
Trunc(q) == IF q[1] >= 0 THEN q[1] \div q[2] ELSE -((-q[1]) \div q[2])

\* math_agent/agent.py normalize_args(name, raw_args, env): exc = "none" and
\* the keyword arguments, or the exception raised.
NArgs(args)  == [exc |-> "none", args |-> args]
NFail(e)     == [exc |-> e, args |-> [key \in {} |-> <<0, 1>>]]

normalize_args(name, raw_args, env) ==
  LET n == StrLower(name)
      r(key) == math_resolve_arg(Get(raw_args, key), env)
      pick(ks) ==
        LET rs == [i \in 1..Len(ks) |-> r(ks[i])]
            e  == FirstExc(rs, [i \in 1..Len(ks) |-> i])
        IN IF e # "none" THEN NFail(e)
           ELSE NArgs([key \in {ks[i] : i \in 1..Len(ks)} |->
                         r(key).q])
  IN IF n \in {n_add, n_subtract, n_multiply, n_divide} THEN pick(<<"a", "b">>)
     ELSE IF n = n_square THEN pick(<<"x">>)
     ELSE IF n = n_power THEN pick(<<"x", "y">>)
     ELSE IF n = n_sqrt THEN pick(<<"x">>)
     ELSE IF n = n_round
     THEN LET x   == r("x")
              raw == IF "ndigits" \in DOMAIN raw_args THEN raw_args["ndigits"]
                     ELSE JNum(<<0, 1>>)
              nd  == IF raw.k = "str" THEN math_resolve_arg(raw, env)
                     ELSE IF raw.k = "num" THEN Res(raw.n)
                     ELSE ResFail("TypeError")
          IN IF x.exc # "none" THEN NFail(x.exc)
             ELSE IF nd.exc # "none" THEN NFail(nd.exc)
             ELSE NArgs([key \in {"x", "ndigits"} |->
                           IF key = "x" THEN x.q ELSE Int2Rat(Trunc(nd.q))])
     ELSE IF n = n_stop THEN NArgs([key \in {} |-> <<0, 1>>])
     ELSE NFail("ValueError")

\* Math_agent/agent.py and agent_clean.py require_args_for_action: TRUE
\* when the check passes, FALSE when it raises ValueError.
require_args_for_action(name, args) ==
  IF name \in {n_add, n_subtract, n_multiply, n_divide, n_power}
  THEN {"a", "b"} \subseteq DOMAIN args
  ELSE IF name \in {n_square, n_sqrt} THEN "x" \in DOMAIN args
  ELSE TRUE

\* ------------------------------------------------ legal_agent run_tool
\* retrieve's default k and summarize's default max_words
DEFAULT_K == 3
DEFAULT_MAX_WORDS == 80

\* An integer from a JSON value used as a slice bound: the exception when
\* it is no integer.
SliceBound(v) ==
  IF v.k = "num" /\ RIsInt(v.n) THEN Res(v.n) ELSE ResFail("TypeError")

\* int(float(v)) in run_tool's quote branch
\* (a value float() cannot convert, an integer beyond the float range
\* included, ends in the except clause: ToolError)
IntOfFloat(v) ==
  IF v.k = "num" THEN Res(Int2Rat(Trunc(v.n)))
  ELSE IF v.k = "str" /\ IsFloatNumeral(Strip(v.s))
  THEN Res(Int2Rat(Trunc(FloatOf(Strip(v.s)))))
  ELSE ResFail("ToolError")

\* str(v) as far as quote's doc_id needs it: only text can start with CH.
StrOf(v) == IF v.k = "str" THEN v.s ELSE <<>>

\* legal_agent/tools.py run_tool(name, **kwargs) over the collection docs
\* (the cache of _docs) and the document files of _load_doc.
legal_run_tool(docs, files, name, kwargs) ==
  CASE name = n_retrieve ->
         IF ~Binds(kwargs, {"query"}, {"k"}) THEN Raise("TypeError")
         ELSE IF docs # <<>> /\ kwargs["query"].k # "str" THEN Raise("AttributeError")
         ELSE IF "k" \in DOMAIN kwargs /\ kwargs["k"].k = "null"
         THEN Ok(JDocs(retrieve(docs, kwargs["query"].s, Len(docs))))
         ELSE LET kb == IF "k" \in DOMAIN kwargs THEN SliceBound(kwargs["k"])
                        ELSE Res(Int2Rat(DEFAULT_K))
              IN IF kb.exc # "none" THEN Raise(kb.exc)
                 ELSE Ok(JDocs(retrieve(docs, kwargs["query"].s, kb.q[1])))
    [] name = n_quote ->
         LET a == IF "start" \in DOMAIN kwargs THEN IntOfFloat(kwargs["start"])
                  ELSE Res(<<0, 1>>)
             b == IF "end" \in DOMAIN kwargs THEN IntOfFloat(kwargs["end"])
                  ELSE Res(<<0, 1>>)
         IN IF a.exc # "none" THEN Raise(a.exc)
            ELSE IF b.exc # "none" THEN Raise(b.exc)
            ELSE quote(files, StrOf(Get(kwargs, "doc_id")), a.q[1], b.q[1])
    [] name = n_summarize ->
         IF ~Binds(kwargs, {"text"}, {"max_words"}) THEN Raise("TypeError")
         ELSE IF kwargs["text"].k # "str" THEN Raise("TypeError")
         ELSE IF "max_words" \in DOMAIN kwargs /\ kwargs["max_words"].k = "null"
         THEN Ok(JStr(summarize(kwargs["text"].s, Len(kwargs["text"].s))))
         ELSE LET mw == IF "max_words" \in DOMAIN kwargs
                        THEN SliceBound(kwargs["max_words"])
                        ELSE Res(Int2Rat(DEFAULT_MAX_WORDS))
              IN IF mw.exc # "none" THEN Raise(mw.exc)
                 ELSE Ok(JStr(summarize(kwargs["text"].s, mw.q[1])))
    [] name = n_compare ->
         IF ~Binds(kwargs, {"text_a", "text_b", "criterion"}, {}) THEN Raise("TypeError")
         ELSE IF kwargs["criterion"].k # "str" THEN Raise("AttributeError")
         ELSE IF kwargs["text_a"].k # "str" THEN Raise("AttributeError")
         ELSE IF kwargs["text_b"].k # "str" THEN Raise("AttributeError")
         ELSE Ok(JStr(compare(kwargs["text_a"].s, kwargs["text_b"].s,
                              kwargs["criterion"].s)))
    [] name = n_stop -> Ok(JNull)
    [] OTHER -> Raise("ToolError")

\* ------------------------------------------------- final-answer tag
\* The backquote character of a code fence.
Backtick == "[backquote]"

\* \s*final\s*> matched (ignoring case) from position i: the position after
\* the closing ">", or 0.
TagRest(t, i) ==
  LET j == SkipSpace(t, i)
      e == SkipSpace(t, j + 5)
  IN IF /\ j + 4 <= Len(t)
        /\ StrLower(SubSeq(t, j, j + 4)) = <<"f", "i", "n", "a", "l">>
        /\ e <= Len(t) /\ t[e] = ">"
     THEN e + 1 ELSE 0

\* <\s*final\s*> at position i: the position after it, or 0.
OpenTag(t, i) == IF i <= Len(t) /\ t[i] = "<" THEN TagRest(t, i + 1) ELSE 0

\* </\s*final\s*> at position i: the position after it, or 0.
CloseTag(t, i) ==
  IF i + 1 <= Len(t) /\ t[i] = "<" /\ t[i + 1] = "/" THEN TagRest(t, i + 2) ELSE 0

\* A search that takes the group up to the last closing tag.
FinalSearch_Greedy(t) ==
  LET opens == {i \in 1..Len(t) :
                  /\ OpenTag(t, i) # 0
                  /\ \E j \in OpenTag(t, i)..Len(t) : CloseTag(t, j) # 0}
  IN IF opens = {} THEN <<0, 0>>
     ELSE LET i == CHOOSE a \in opens : \A b \in opens : a <= b
              g == OpenTag(t, i)
              c == CHOOSE a \in g..Len(t) :
                     /\ CloseTag(t, a) # 0
                     /\ \A b \in g..Len(t) : CloseTag(t, b) # 0 => a >= b
          IN <<g, c - 1>>

\* FINAL_RE.search(t): <<first, last>> of group 1 (1-based, last = first - 1
\* for an empty group), or <<0, 0>> when nothing matches.
FinalSearch(t) ==
  LET opens == {i \in 1..Len(t) :
                  /\ OpenTag(t, i) # 0
                  /\ \E j \in OpenTag(t, i)..Len(t) : CloseTag(t, j) # 0}
  IN IF opens = {} THEN <<0, 0>>
     ELSE LET i == CHOOSE a \in opens : \A b \in opens : a <= b
              g == OpenTag(t, i)
              c == CHOOSE a \in g..Len(t) :
                     /\ CloseTag(t, a) # 0
                     /\ \A b \in g..Len(t) : CloseTag(t, b) # 0 => a <= b
          IN <<g, c - 1>>

\* extract_final_answer(text) / extract_final(text): exc = "none" and the
\* answer in v, or ValueError.
extract_final_answer(text) ==
  IF text = <<>> THEN Raise("ValueError")
  ELSE LET t0 == Strip(text)
           t  == IF Len(t0) >= 3 /\ SubSeq(t0, 1, 3) = <<Backtick, Backtick, Backtick>>
                 THEN StripSet(t0, {Backtick, " ", "\n", "\r", "\t"})
                 ELSE t0
           m  == FinalSearch(t)
       IN IF m[1] = 0 THEN Raise("ValueError")
          ELSE Ok(JStr(Strip(SubSeq(t, m[1], m[2]))))

\* ------------------------------------------------------ closed name sets
\* math_agent/agent.py VALID
math_VALID == {n_add, n_subtract, n_multiply, n_divide, n_square, n_power,
               n_sqrt, n_round, n_stop}

\* Math_agent/agent.py VALID
Math_VALID == {n_add, n_subtract, n_multiply, n_divide, n_square, n_power,
               n_sqrt, n_stop}

\* Math_agent/agent_clean.py VALID
clean_VALID == {n_add, n_multiply, n_square, n_stop}

\* legal_agent/agent.py VALID
legal_VALID == {n_retrieve, n_quote, n_summarize, n_compare, n_stop}

\* str(action["name"]).strip().lower()
NormName(name) == StrLower(Strip(name))

\* ------------------------------------------------ the oracle's answers
\* A planner reply once parsed: shape "ok" is a JSON object holding thought
\* and action{name, args}, args an object whose keys come in the order
\* keys; shape "not_json" is text json.loads rejects.
Plan(name, keys, args) ==
  [shape |-> "ok", thought |-> "t", name |-> name, keys |-> keys, args |-> args]

\* A JSON object holding action{name, args} and no thought.
PlanNoThought(name, keys, args) ==
  [shape |-> "no_thought", thought |-> "", name |-> name, keys |-> keys,
   args |-> args]

\* A JSON object holding thought and action{name}, the action without args.
PlanNoArgs(name) ==
  [shape |-> "no_args", thought |-> "t", name |-> name, keys |-> <<>>,
   args |-> NoArgs]

NotJson == [shape |-> "not_json", thought |-> "", name |-> <<>>, keys |-> <<>>,
            args |-> NoArgs]

NoPlan  == [shape |-> "none", thought |-> "", name |-> <<>>, keys |-> <<>>,
            args |-> NoArgs]

Two  == <<2, 1>>
Half == <<1, 2>>

\* The replies the planner oracle may give at any call.
Plans ==
  { Plan(n_stop, <<>>, NoArgs),
    Plan(n_add, <<"a", "b">>, [a |-> JNum(Two), b |-> JStr(<<"3">>)]),
    Plan(<<" ", "A", "d", "d", " ">>, <<"a", "b">>, [a |-> JStr(<<"x">>), b |-> JStr(<<"y">>)]),
    Plan(n_add, <<"a", "b">>, [a |-> JStr(<<"z">>), b |-> JStr(<<"r">>)]),
    Plan(n_add, <<"a">>, [a |-> JNum(<<1, 1>>)]),
    Plan(n_multiply, <<"a", "b">>, [a |-> JStr(<<"r">>), b |-> JNum(Half)]),
    Plan(n_divide, <<"a", "b">>, [a |-> JNum(<<1, 1>>), b |-> JNum(<<0, 1>>)]),
    Plan(n_sqrt, <<"x">>, [x |-> JNum(<<-1, 1>>)]),
    Plan(n_sqrt, <<"x">>, [x |-> JNum(<<4, 1>>)]),
    Plan(n_power, <<"a", "b">>, [a |-> JNum(<<-2, 1>>), b |-> JNum(Half)]),
    Plan(n_round, <<"x", "ndigits">>, [x |-> JNum(<<5, 2>>), ndigits |-> JNum(<<0, 1>>)]),
    Plan(<<"m", "o", "d", "u", "l", "o">>, <<"a", "b">>, [a |-> JNum(Two), b |-> JNum(Two)]),
    Plan(n_retrieve, <<"query", "k">>, [query |-> JStr(<<"t", "h", "e", " ", "r", "e", "n", "t", " ", "l", "a", "w">>), k |-> JNum(Two)]),
    Plan(n_retrieve, <<>>, NoArgs),
    Plan(n_quote, <<"doc_id", "start", "end">>,
         [doc_id |-> JStr(<<"C", "H", "1">>), start |-> JNum(<<-1, 1>>), end |-> JNum(<<3, 1>>)]),
    Plan(n_quote, <<"doc_id">>, [doc_id |-> JStr(<<"X", "X", "9">>)]),
    Plan(n_add, <<"a", "b", "x">>,
         [a |-> JNum(Two), b |-> JNum(Two), x |-> JNum(<<1, 1>>)]),
    PlanNoThought(n_retrieve, <<"query">>,
                  [query |-> JStr(<<"t", "a", "x">>)]),
    PlanNoArgs(n_stop),
    NotJson }

\* Replies to a request for the final answer: without the tag ...
UntaggedTexts ==
  { <<>>,
    <<"7">> }

\* ... and holding 7 in the tag, bare or fenced with a padded upper-case tag.
TaggedTexts ==
  { <<"<", "f", "i", "n", "a", "l", ">", "7", "<", "/", "f", "i", "n", "a", "l", ">">>,
    <<"[backquote]", "[backquote]", "[backquote]", "\n", "<", " ", "F", "I", "N", "A", "L", " ", ">", " ", "7", " ", "<", "/", "f", "i", "n", "a", "l", ">", "\n", "[backquote]", "[backquote]", "[backquote]">> }

\* The replies the oracle may give to a request for the final answer.
FinalTexts == UntaggedTexts \cup TaggedTexts

\* The questions a run is started with.
Questions ==
  { <<"x", "=", "4", ",", " ", "y", "=", "-", "3", ".", "5">>,
    <<"r", "=", "2">> }

\* The static document collection (loaded in file-name order) that both
\* _docs and _load_doc read.
Corpus ==
  << [doc_id |-> <<"C", "H", "1">>, title |-> <<"T", "a", "x">>, text |-> <<"t", "a", "x", " ", "l", "a", "w">>],
     [doc_id |-> <<"C", "H", "2">>, title |-> <<"R", "e", "n", "t">>, text |-> <<"t", "h", "e", " ", "r", "e", "n", "t", " ", "l", "a", "w">>] >>

Variants == {"math_agent", "Math_agent", "agent_clean", "legal_agent"}

\* ------------------------------------------------------------------ state
VARIABLES
  variant,     \* which agent's solve is running
  question,    \* its question
  max_steps,   \* its step budget
  pc,          \* "plan": about to call the planner; "body": a plan came back;
               \* "finalize", "retry": before the 1st / 2nd finalization call;
               \* "done": solve returned; "failed": solve raised
  it,          \* loop iterations begun
  plan,        \* the plan being processed (NoPlan between iterations)
  history,     \* the conversation
  steps,       \* the AFMSteps recorded
  env,         \* variable environment
  last_value,  \* Math_agent's carry (None before the first result)
  answer,      \* the answer returned
  error,       \* the exception solve raised, or "none"
  planCalls,   \* planner calls made            (observer)
  plansBack,   \* plans the planner returned    (observer)
  toolCalls,   \* run_tool invocations          (observer)
  toolLog,     \* successful tool executions    (observer)
  finalCalls,  \* oracle calls after the loop   (observer)
  finalReplies,\* the replies to those calls    (observer)
  finalInput,  \* the messages each was sent    (observer)
  reply,       \* the planner's latest reply    (observer)
  plannerInput,\* the messages it was sent      (observer)
  planReplies, \* every planner reply, in order (observer)
  qid,         \* the dataset record's "id" (JNull when it has none)
  fout,        \* the lines main has written for this question
  client,      \* the module's oracle client global ("none" until created)
  docsCache,   \* legal_agent/tools.py _DOCS_CACHE
  runs,        \* solve invocations in flight: 1, or 2 interleaved
  other,       \* the locals of the invocation that is not running now
  call         \* a function called on its own: its input, then its result

vars == <<variant, question, max_steps, pc, it, plan, history, steps, env,
          last_value, answer, error, planCalls, plansBack, toolCalls, toolLog,
          finalCalls, finalReplies, finalInput, reply, plannerInput,
          planReplies, qid, fout, client, docsCache, runs, other, call>>

\* A message of the conversation.
Msg(role, tag, p, val, text) ==
  [role |-> role, tag |-> tag, plan |-> p, val |-> val, text |-> text]

SystemPrompt   == Msg("system", "system_prompt", NoPlan, JNull, <<>>)
QuestionMsg(q) == Msg("user", "Question", NoPlan, JNull, q)
PlanJson(p)    == Msg("assistant", "plan_json", p, JNull, <<>>)
Observation(r) == Msg("system", "Observation", NoPlan, r, <<>>)
\* A resolution failure reported to the planner as if it were a result.
ErrorMsg_AsObservation(v) == Msg("system", "Observation", NoPlan, v, <<>>)

ErrorMsg(v)    == Msg("system", "Error", NoPlan, v, <<>>)
FinalQuestion  == Msg("user", "final_question", NoPlan, JNull, <<>>)
\* _finalize_answer's two instructions: the first attempt's prompt and the
\* retry's correction.
FinalPrompt    == Msg("user", "final_prompt", NoPlan, JNull, <<>>)
RetryPrompt    == Msg("user", "final_retry", NoPlan, JNull, <<>>)

\* AFMStep(function, thought, tool_call, tool_result)
AFMStep(function, thought, call_name, call_args, tool_result) ==
  [function |-> function, thought |-> thought,
   tool_call |-> [name |-> call_name, args |-> call_args],
   tool_result |-> tool_result]

StopStep(thought) == AFMStep(n_stop, thought, n_stop, NoArgs, JNull)

\* Keyword arguments of numbers as the JSON values a tool_call records.
\* A step log that records the carry symbol in place of each resolved number.
AsJson_Symbolic(kwargs) == [key \in DOMAIN kwargs |-> JStr(<<"r">>)]

AsJson(kwargs) == [key \in DOMAIN kwargs |-> JNum(kwargs[key])]

\* The "id" of the dataset record: given, or absent.
QIds == {JStr(<<"q", "1">>), JNull}

\* _DOCS_CACHE before and after _load_corpus.
NotLoaded == [loaded |-> FALSE, docs |-> <<>>]

\* legal_agent/tools.py _docs: the cache, filled from the collection on
\* first use.
_docs == IF docsCache.loaded THEN docsCache
         ELSE [loaded |-> TRUE, docs |-> Corpus]

\* No second invocation.
NoRun == [pc |-> "none"]

\* No function called on its own.
NoCall == [fn |-> "none"]

\* Budgets of two interleaved invocations.
TwoBudget == 2

\* The oracle's replies while two invocations are interleaved: a stop, a
\* sum of literals, a product that reads "r", and a retrieval ...
TwoPlans ==
  { Plan(n_stop, <<>>, NoArgs),
    Plan(n_add, <<"a", "b">>, [a |-> JNum(Two), b |-> JStr(<<"3">>)]),
    Plan(n_multiply, <<"a", "b">>, [a |-> JStr(<<"r">>), b |-> JNum(Half)]),
    Plan(n_retrieve, <<"query", "k">>, [query |-> JStr(<<"t", "h", "e", " ", "r", "e", "n", "t", " ", "l", "a", "w">>), k |-> JNum(Two)]) }

\* ... and a final answer without and with the tag.
TwoFinals ==
  { <<"7">>,
    <<"<", "f", "i", "n", "a", "l", ">", "7", "<", "/", "f", "i", "n", "a", "l", ">">> }

\* extract_final_answer(reply.strip()) of each reply the oracle may give to
\* a finalization call.
FinalOf ==
  [txt \in FinalTexts \cup TwoFinals |-> extract_final_answer(Strip(txt))]

\* What the oracle may answer to a planner call and to a finalization call:
\* the full menus for a solve on its own, the short ones for interleaved
\* solves and for a main that goes through a dataset.
Replies == IF runs = 1 /\ other = NoRun THEN Plans ELSE TwoPlans
Finals  == IF runs = 1 /\ other = NoRun THEN FinalTexts ELSE TwoFinals

\* The locals of solve(q, max_steps = n) when its loop begins, with what
\* its caller holds for the question (the record's id, the lines written).
Start(v, q, n, id) ==
  [question |-> q, max_steps |-> n, qid |-> id, pc |-> "plan", it |-> 0,
   plan |-> NoPlan,
   history |-> IF v \in {"math_agent", "legal_agent"}
               THEN <<SystemPrompt, QuestionMsg(q)>>
               ELSE <<QuestionMsg(q)>>,
   steps |-> <<>>,
   env |-> IF v \in {"Math_agent", "agent_clean"}
           THEN extract_env_vars(q) ELSE EmptyEnv,
   last_value |-> None, answer |-> <<>>, error |-> "none",
   planCalls |-> 0, plansBack |-> 0, toolCalls |-> 0, toolLog |-> <<>>,
   finalCalls |-> 0, finalReplies |-> <<>>, finalInput |-> <<>>,
   reply |-> NoPlan,
   plannerInput |-> <<>>, planReplies |-> <<>>, fout |-> <<>>]

\* The running invocation has the locals l.
Running(l) ==
  /\ question = l.question /\ max_steps = l.max_steps /\ qid = l.qid
  /\ pc = l.pc /\ it = l.it /\ plan = l.plan /\ history = l.history
  /\ steps = l.steps /\ env = l.env /\ last_value = l.last_value
  /\ answer = l.answer /\ error = l.error /\ planCalls = l.planCalls
  /\ plansBack = l.plansBack /\ toolCalls = l.toolCalls
  /\ toolLog = l.toolLog /\ finalCalls = l.finalCalls
  /\ finalReplies = l.finalReplies /\ finalInput = l.finalInput
  /\ reply = l.reply
  /\ plannerInput = l.plannerInput /\ planReplies = l.planReplies
  /\ fout = l.fout

Init ==
  /\ variant \in Variants
  /\ \E q \in Questions, n \in 1..MaxBudget, id \in QIds :
       Running(Start(variant, q, n, id))
  /\ client = "none"
  /\ docsCache = NotLoaded
  /\ runs = 1
  /\ other = NoRun
  /\ call = NoCall

\* What no step of solve assigns: its inputs, the caller's file, and the
\* locals of another invocation.
Frozen ==
  UNCHANGED <<variant, question, max_steps, qid, fout, runs, other, call>>

\* A client getter that builds a new client on every call.
get_client_Fresh ==
  client' = IF client = "OpenAI" THEN "OpenAI2" ELSE "OpenAI"

\* _client / _get_client: the module global is created on first use and
\* returned as it is afterwards.
get_client ==
  client' = IF client = "none" THEN "OpenAI" ELSE client

\* A loop that goes back to the planner whatever the count.
AfterIteration_Forever(n) == IF n >= 0 THEN "plan" ELSE "finalize"

\* The loop with one iteration too many.
AfterIteration_OffByOne(n) == IF n <= max_steps THEN "plan" ELSE "finalize"

\* for _ in range(max_steps): the loop goes on while iterations remain.
AfterIteration(n) == IF n < max_steps THEN "plan" ELSE "finalize"

\* ----------------------------------------------------------- planner calls
\* One planner call answered by p; accepted tells whether the adapter
\* returns the plan, exc is what it raises otherwise.
PlannerCall(p, accepted, exc) ==
  /\ pc = "plan"
  /\ planCalls' = planCalls + 1
  /\ reply' = p
  /\ planReplies' = Append(planReplies, p)
  /\ get_client
  /\ plannerInput' = IF variant \in {"Math_agent", "agent_clean"}
                     THEN <<SystemPrompt>> \o history ELSE history
  /\ IF accepted
     THEN /\ pc' = "body" /\ plan' = p /\ plansBack' = plansBack + 1
          /\ error' = error
     ELSE /\ pc' = "failed" /\ plan' = plan /\ plansBack' = plansBack
          /\ error' = exc
  /\ Frozen
  /\ UNCHANGED <<it, history, steps, env, last_value, answer, toolCalls,
                 toolLog, finalCalls, finalReplies, finalInput, docsCache>>

\* math_agent/agent.py _plan_step: json.loads and nothing else.
math_plan_step ==
  /\ variant = "math_agent"
  /\ \E p \in Replies : PlannerCall(p, p.shape # "not_json", "JSONDecodeError")

\* A planner adapter that lets every action name through.
Math_llm_plan_step_AnyName ==
  /\ variant = "Math_agent"
  /\ \E p \in Replies :
       PlannerCall(p, p.shape = "ok", "JSONDecodeError")

\* Math_agent/agent.py llm_plan_step: json.loads, then the strict checks.
Math_llm_plan_step ==
  /\ variant = "Math_agent"
  /\ \E p \in Replies :
       PlannerCall(p, p.shape = "ok" /\ NormName(p.name) \in Math_VALID,
                   IF p.shape = "not_json" THEN "JSONDecodeError"
                   ELSE "ValueError")

\* Math_agent/agent_clean.py llm_plan_step: extract_json_block, json.loads,
\* then the strict checks.
clean_llm_plan_step ==
  /\ variant = "agent_clean"
  /\ \E p \in Replies :
       PlannerCall(p, p.shape = "ok" /\ NormName(p.name) \in clean_VALID,
                   "ValueError")

\* legal_agent/agent.py plan_step: any failure is re-raised as ValueError.
legal_plan_step ==
  /\ variant = "legal_agent"
  /\ \E p \in Replies : PlannerCall(p, p.shape # "not_json", "ValueError")

\* ---------------------------------------------------------- loop bodies
\* thought = plan["thought"], or plan.get("thought", "") in legal_agent.
Thought == IF plan.shape = "no_thought" THEN "" ELSE plan.thought

\* The loop body raises exc: solve ends with that exception.
Abort(exc, tc) ==
  /\ pc' = "failed" /\ error' = exc /\ plan' = NoPlan
  /\ toolCalls' = toolCalls + tc
  /\ UNCHANGED <<it, history, steps, env, last_value, answer, toolLog>>

\* A stop that records its Step and goes on with the loop.
StopBody_NoBreak ==
  /\ steps' = Append(steps, StopStep(Thought))
  /\ pc' = AfterIteration(it + 1) /\ plan' = NoPlan /\ it' = it + 1
  /\ UNCHANGED <<history, env, last_value, answer, error, toolCalls, toolLog>>

\* A stop that is fed back to the planner's conversation like a tool call:
\* the plan JSON and an observation of no result are appended.
StopBody_Observed ==
  /\ steps' = Append(steps, StopStep(Thought))
  /\ history' = history \o <<PlanJson(plan), Observation(JNull)>>
  /\ pc' = "finalize" /\ plan' = NoPlan /\ it' = it + 1
  /\ UNCHANGED <<env, last_value, answer, error, toolCalls, toolLog>>

\* name == "stop": one stop Step, then break.
StopBody ==
  /\ steps' = Append(steps, StopStep(Thought))
  /\ pc' = "finalize" /\ plan' = NoPlan /\ it' = it + 1
  /\ UNCHANGED <<history, env, last_value, answer, error, toolCalls, toolLog>>

\* A successful tool call that keeps only the latest exchange as history.
Recorded_Forgetful(name, kwargs, r) ==
  /\ steps' = Append(steps, AFMStep(name, Thought, name, kwargs, r))
  /\ history' = <<PlanJson(plan), Observation(r)>>
  /\ toolCalls' = toolCalls + 1
  /\ toolLog' = Append(toolLog, [name |-> name, args |-> kwargs, result |-> r])
  /\ pc' = AfterIteration(it + 1) /\ plan' = NoPlan /\ it' = it + 1
  /\ UNCHANGED <<answer, error>>

\* A successful tool call that leaves no Step behind.
Recorded_NoStep(name, kwargs, r) ==
  /\ steps' = steps
  /\ history' = history \o <<PlanJson(plan), Observation(r)>>
  /\ toolCalls' = toolCalls + 1
  /\ toolLog' = Append(toolLog, [name |-> name, args |-> kwargs, result |-> r])
  /\ pc' = AfterIteration(it + 1) /\ plan' = NoPlan /\ it' = it + 1
  /\ UNCHANGED <<answer, error>>

\* run_tool returned r for call (name, kwargs): the Step and the two
\* history messages are appended.
Recorded(name, kwargs, r) ==
  /\ steps' = Append(steps, AFMStep(name, Thought, name, kwargs, r))
  /\ history' = history \o <<PlanJson(plan), Observation(r)>>
  /\ toolCalls' = toolCalls + 1
  /\ toolLog' = Append(toolLog, [name |-> name, args |-> kwargs, result |-> r])
  /\ pc' = AfterIteration(it + 1) /\ plan' = NoPlan /\ it' = it + 1
  /\ UNCHANGED <<answer, error>>

BodyFrame ==
  /\ Frozen
  /\ UNCHANGED <<planCalls, plansBack, finalCalls, finalReplies, finalInput,
                 reply, plannerInput, planReplies, client>>

\* math_agent/agent.py solve, lines 221-250
math_body ==
  /\ variant = "math_agent" /\ pc = "body"
  /\ BodyFrame /\ UNCHANGED docsCache
  /\ \E name \in {NormName(plan.name)} :
     \E na \in {normalize_args(name, plan.args, env)} :
     \E out \in {math_run_tool(name, na.args)} :
        IF plan.shape = "no_thought" THEN Abort("KeyError", 0)
        ELSE IF name \notin math_VALID THEN Abort("ValueError", 0)
        ELSE IF name = n_stop THEN StopBody
        ELSE IF na.exc # "none" THEN Abort(na.exc, 0)
        ELSE IF out.exc # "none" THEN Abort(out.exc, 1)
        ELSE /\ Recorded(name, AsJson(na.args), out.v)
             /\ env' = IF out.v.k = "num" THEN Bind(env, "r", out.v.n) ELSE env
             /\ last_value' = last_value

\* The argument whose failure the comprehension raises: the first in key
\* order that does not resolve.
FirstBad(p, res) ==
  LET bad == {i \in 1..Len(p.keys) : res[p.keys[i]].exc # "none"}
  IN p.args[p.keys[CHOOSE i \in bad : \A j \in bad : i <= j]]

\* Math_agent/agent.py solve, lines 148-175
Math_body ==
  /\ variant = "Math_agent" /\ pc = "body"
  /\ BodyFrame /\ UNCHANGED docsCache
  /\ \E name \in {NormName(plan.name)} :
     \E res \in {[key \in DOMAIN plan.args |->
                    Math_resolve_arg(plan.args[key], env, last_value)]} :
     \E bad \in {\E key \in DOMAIN res : res[key].exc # "none"} :
     \E args \in {[key \in DOMAIN res |-> res[key].q]} :
     \E out \in {Math_run_tool(name, args)} :
        IF ~require_args_for_action(name, plan.args) THEN Abort("ValueError", 0)
        ELSE IF name = n_stop THEN StopBody
        ELSE IF bad
        THEN /\ history' = history \o <<PlanJson(plan), ErrorMsg(FirstBad(plan, res))>>
             /\ pc' = AfterIteration(it + 1) /\ plan' = NoPlan /\ it' = it + 1
             /\ UNCHANGED <<steps, env, last_value, answer, error, toolCalls, toolLog>>
        ELSE IF out.exc # "none" THEN Abort(out.exc, 1)
        ELSE /\ Recorded(name, AsJson(args), out.v)
             /\ last_value' = out.v.n
             /\ env' = env

\* Math_agent/agent_clean.py require_args_for_action
clean_require_args(name, args) ==
  IF name \in {n_add, n_multiply} THEN {"a", "b"} \subseteq DOMAIN args
  ELSE IF name = n_square THEN "x" \in DOMAIN args
  ELSE TRUE

\* Math_agent/agent_clean.py solve, lines 119-139
clean_body ==
  /\ variant = "agent_clean" /\ pc = "body"
  /\ BodyFrame /\ UNCHANGED docsCache
  /\ \E name \in {NormName(plan.name)} :
     \E res \in {[key \in DOMAIN plan.args |->
                    clean_resolve_arg(plan.args[key], env)]} :
     \E bad \in {\E key \in DOMAIN res : res[key].exc # "none"} :
     \E args \in {[key \in DOMAIN res |-> res[key].q]} :
     \E out \in {Math_run_tool(name, args)} :
        IF ~clean_require_args(name, plan.args) THEN Abort("ValueError", 0)
        ELSE IF name = n_stop THEN StopBody
        ELSE IF bad THEN Abort("ValueError", 0)
        ELSE IF out.exc # "none" THEN Abort(out.exc, 1)
        ELSE /\ Recorded(name, AsJson(args), out.v)
             /\ last_value' = out.v.n
             /\ env' = env

\* legal_agent/agent.py solve, lines 154-174
legal_body ==
  /\ variant = "legal_agent" /\ pc = "body"
  /\ BodyFrame
  /\ \E name \in {NormName(plan.name)} :
     \E out \in {legal_run_tool(_docs.docs, Corpus, name, plan.args)} :
        /\ docsCache' = IF name = n_retrieve
                            /\ Binds(plan.args, {"query"}, {"k"})
                         THEN _docs ELSE docsCache
        /\ IF name \notin legal_VALID THEN Abort("ValueError", 0)
           ELSE IF name = n_stop THEN StopBody
           ELSE IF out.exc # "none" THEN Abort(out.exc, 1)
           ELSE /\ Recorded(name, plan.args, out.v)
                /\ UNCHANGED <<env, last_value>>

\* ------------------------------------------------------------ finalization
FinalFrame ==
  /\ Frozen
  /\ get_client
  /\ UNCHANGED <<it, plan, steps, env, last_value, planCalls, plansBack,
                 toolCalls, toolLog, reply, plannerInput, planReplies,
                 docsCache>>

\* A finalization that hands an untagged reply back to the planner loop.
finalize_first_Replan ==
  /\ variant \in {"math_agent", "legal_agent"} /\ pc = "finalize"
  /\ FinalFrame
  /\ \E txt \in Finals :
       LET r == FinalOf[txt]
       IN /\ finalCalls' = finalCalls + 1
          /\ finalReplies' = Append(finalReplies, txt)
          /\ finalInput' = Append(finalInput, Append(history, FinalPrompt))
          /\ IF r.exc = "none"
             THEN /\ pc' = "done" /\ answer' = r.v.s
             ELSE /\ pc' = (IF planCalls < max_steps THEN "plan" ELSE "retry")
                  /\ answer' = answer
          /\ UNCHANGED <<history, error>>

\* _finalize_answer of math_agent and legal_agent, first attempt: one
\* oracle call on history + [prompt], then the extraction.
finalize_first ==
  /\ variant \in {"math_agent", "legal_agent"} /\ pc = "finalize"
  /\ FinalFrame
  /\ \E txt \in Finals :
       LET r == FinalOf[txt]
       IN /\ finalCalls' = finalCalls + 1
          /\ finalReplies' = Append(finalReplies, txt)
          /\ finalInput' = Append(finalInput, Append(history, FinalPrompt))
          /\ IF r.exc = "none"
             THEN /\ pc' = "done" /\ answer' = r.v.s
             ELSE /\ pc' = "retry" /\ answer' = answer
          /\ UNCHANGED <<history, error>>

\* A retry that asks again for as long as the reply has no tag.
finalize_retry_Again ==
  /\ variant \in {"math_agent", "legal_agent"} /\ pc = "retry"
  /\ FinalFrame
  /\ \E txt \in Finals :
       LET r == FinalOf[txt]
       IN /\ finalCalls' = finalCalls + 1
          /\ finalReplies' = Append(finalReplies, txt)
          /\ finalInput' = Append(finalInput, Append(history, RetryPrompt))
          /\ IF r.exc = "none"
             THEN /\ pc' = "done" /\ answer' = r.v.s /\ error' = error
             ELSE /\ pc' = "retry" /\ answer' = answer /\ error' = error
          /\ UNCHANGED history

\* A retry that keeps the first exchange in the conversation: it is sent
\* the history, the first instruction, the malformed reply and the
\* correction.
finalize_retry_Chatty ==
  /\ variant \in {"math_agent", "legal_agent"} /\ pc = "retry"
  /\ FinalFrame
  /\ \E txt \in Finals :
       LET r == FinalOf[txt]
       IN /\ finalCalls' = finalCalls + 1
          /\ finalReplies' = Append(finalReplies, txt)
          /\ finalInput' = Append(finalInput,
                                  history \o <<FinalPrompt,
                                               Msg("assistant", "final_reply", NoPlan,
                                                   JNull, finalReplies[1]),
                                               RetryPrompt>>)
          /\ IF r.exc = "none"
             THEN /\ pc' = "done" /\ answer' = r.v.s /\ error' = error
             ELSE /\ pc' = "failed" /\ answer' = answer /\ error' = r.exc
          /\ UNCHANGED history

\* _finalize_answer, the retry: one more call on history + [retry]; its
\* extraction failure leaves solve.
finalize_retry ==
  /\ variant \in {"math_agent", "legal_agent"} /\ pc = "retry"
  /\ FinalFrame
  /\ \E txt \in Finals :
       LET r == FinalOf[txt]
       IN /\ finalCalls' = finalCalls + 1
          /\ finalReplies' = Append(finalReplies, txt)
          /\ finalInput' = Append(finalInput, Append(history, RetryPrompt))
          /\ IF r.exc = "none"
             THEN /\ pc' = "done" /\ answer' = r.v.s /\ error' = error
             ELSE /\ pc' = "failed" /\ answer' = answer /\ error' = r.exc
          /\ UNCHANGED history

\* Math_agent/agent.py solve, lines 177-182: the reply is the answer.
Math_final ==
  /\ variant = "Math_agent" /\ pc = "finalize"
  /\ FinalFrame
  /\ \E txt \in Finals :
       /\ history' = Append(history, FinalQuestion)
       /\ finalCalls' = finalCalls + 1
       /\ finalReplies' = Append(finalReplies, txt)
       /\ finalInput' = Append(finalInput, history')
       /\ answer' = Strip(txt)
       /\ pc' = "done"
       /\ error' = error

\* Math_agent/agent_clean.py solve, lines 141-146
clean_final ==
  /\ variant = "agent_clean" /\ pc = "finalize"
  /\ FinalFrame
  /\ \E txt \in Finals :
       /\ history' = Append(history, FinalQuestion)
       /\ finalCalls' = finalCalls + 1
       /\ finalReplies' = Append(finalReplies, txt)
       /\ finalInput' = Append(finalInput, history')
       /\ answer' = Strip(txt)
       /\ pc' = "done"
       /\ error' = error

\* ------------------------------------------------------- the agent mains
\* --model and --task defaults.
MODEL == <<"g", "p", "t", "-", "4", "o", "-", "m", "i", "n", "i">>
MathQA == <<"M", "a", "t", "h", "Q", "A">>
LegalQA == <<"L", "e", "g", "a", "l", "Q", "A">>

\* int(time.time()) when the record is built: whatever the clock shows.
Times == {1700000000, 1700000001}

\* uuid.uuid4().hex[:8]: a fresh random value.
Uuids == {<<"0", "a">>, <<"f", "9">>}

\* qid = ex.get("id") or f"math-{uuid.uuid4().hex[:8]}"
math_qid(u) ==
  IF qid = JNull THEN JStr(<<"m", "a", "t", "h", "-">> \o u) ELSE qid

AFMTrajectory(id, task, q, context, stps, ans, meta) ==
  [id |-> id, task |-> task, question |-> q, context |-> context,
   steps |-> stps, answer |-> ans, meta |-> meta]

\* Math_agent/afm_schema.py to_json: the version and the time of the call
\* are put into meta, then the record is dumped.
to_json(traj, now) ==
  [traj EXCEPT !.meta = Bind(Bind(traj.meta, "afm_version", <<"0", ".", "1">>),
                             "timestamp", now)]

\* to_json of the schema module math_agent/main.py imports: the record
\* with the generation timestamp in its meta.
afm_to_json(traj, now) ==
  [traj EXCEPT !.meta = Bind(traj.meta, "timestamp", now)]

\* scripts/validate_afm.py
REQUIRED_KEYS == {"id", "task", "question", "steps", "answer", "meta"}
REQUIRED_STEP_KEYS == {"function", "thought", "tool_call", "tool_result"}

\* validate_line(obj, line_no): "none" for None, else which message (the
\* steps of a record built by a main are a list of dicts).
validate_line(obj) ==
  IF REQUIRED_KEYS \ DOMAIN obj # {} THEN "missing keys"
  ELSE IF \E i \in 1..Len(obj.steps) : REQUIRED_STEP_KEYS \ DOMAIN obj.steps[i] # {}
  THEN "step missing keys"
  ELSE "none"

MainFrame ==
  UNCHANGED <<variant, question, max_steps, pc, it, plan, history, steps, env,
              last_value, answer, error, planCalls, plansBack, toolCalls,
              toolLog, finalCalls, finalReplies, finalInput, reply,
              plannerInput, planReplies, qid, client, docsCache, runs, other,
              call>>

\* A main that opens the record's line before solve has returned.
write_Early(line) ==
  /\ pc \in {"finalize", "done"} /\ fout = <<>>
  /\ fout' = <<line>>
  /\ MainFrame

\* fout.write(... + "\n") after solve has returned: one line, whole.
write(line) ==
  /\ pc = "done" /\ fout = <<>>
  /\ fout' = <<line>>
  /\ MainFrame

\* math_agent/main.py, lines 25-39
math_main ==
  /\ variant = "math_agent"
  /\ \E u \in Uuids, now \in Times :
       write(afm_to_json(
         AFMTrajectory(math_qid(u), MathQA, question, <<>>, steps, answer,
                       [model |-> MODEL, max_steps |-> max_steps,
                        afm_version |-> <<"0", ".", "1">>]), now))

\* Math_agent/main.py, lines 23-31
Math_main ==
  /\ variant = "Math_agent"
  /\ \E u \in Uuids, now \in Times :
       write(to_json(
         AFMTrajectory(math_qid(u), MathQA, question, <<>>, steps, answer,
                       [model |-> MODEL, max_steps |-> max_steps]), now))

\* legal_agent/main.py, lines 100-120
legal_main ==
  /\ variant = "legal_agent"
  /\ \E now \in Times :
       write(AFMTrajectory(qid, LegalQA, question, <<>>, steps, answer,
                           [model |-> MODEL, max_steps |-> max_steps,
                            afm_version |-> <<"0", ".", "1">>, ts |-> now]))

\* ------------------------------------------- solve as a function of replies
\* solve(q, max_steps = n) of agent v run on its own, as a function of the
\* oracle's replies: l is what the loop has built (steps, env, carry,
\* iterations, and where it stands), p the planner's next reply.
ThoughtOf(p) == IF p.shape = "no_thought" THEN "" ELSE p.thought

Go(n, l) == IF l.it + 1 < n THEN "plan" ELSE "finalize"

Raised(l) == [l EXCEPT !.at = "failed"]

Stopped(l, p) ==
  [l EXCEPT !.steps = Append(@, StopStep(ThoughtOf(p))), !.it = @ + 1,
            !.at = "finalize"]

Stepped(n, l, p, name, kwargs, r) ==
  [l EXCEPT !.steps = Append(@, AFMStep(name, ThoughtOf(p), name, kwargs, r)),
            !.it = @ + 1, !.at = Go(n, l)]

math_iteration(n, l, p) ==
  LET name == NormName(p.name)
      na   == normalize_args(name, p.args, l.env)
      out  == math_run_tool(name, na.args)
  IN IF p.shape \in {"not_json", "no_thought"} THEN Raised(l)
     ELSE IF name \notin math_VALID THEN Raised(l)
     ELSE IF name = n_stop THEN Stopped(l, p)
     ELSE IF na.exc # "none" THEN Raised(l)
     ELSE IF out.exc # "none" THEN Raised(l)
     ELSE [Stepped(n, l, p, name, AsJson(na.args), out.v) EXCEPT
             !.env = IF out.v.k = "num" THEN Bind(@, "r", out.v.n) ELSE @]

Math_iteration(n, l, p) ==
  LET name == NormName(p.name)
      res  == [key \in DOMAIN p.args |->
                 Math_resolve_arg(p.args[key], l.env, l.last_value)]
      args == [key \in DOMAIN res |-> res[key].q]
      out  == Math_run_tool(name, args)
  IN IF ~(p.shape = "ok" /\ name \in Math_VALID) THEN Raised(l)
     ELSE IF ~require_args_for_action(name, p.args) THEN Raised(l)
     ELSE IF name = n_stop THEN Stopped(l, p)
     ELSE IF \E key \in DOMAIN res : res[key].exc # "none"
     THEN [l EXCEPT !.it = @ + 1, !.at = Go(n, l)]
     ELSE IF out.exc # "none" THEN Raised(l)
     ELSE [Stepped(n, l, p, name, AsJson(args), out.v) EXCEPT
             !.last_value = out.v.n]

clean_iteration(n, l, p) ==
  LET name == NormName(p.name)
      res  == [key \in DOMAIN p.args |-> clean_resolve_arg(p.args[key], l.env)]
      args == [key \in DOMAIN res |-> res[key].q]
      out  == Math_run_tool(name, args)
  IN IF ~(p.shape = "ok" /\ name \in clean_VALID) THEN Raised(l)
     ELSE IF ~clean_require_args(name, p.args) THEN Raised(l)
     ELSE IF name = n_stop THEN Stopped(l, p)
     ELSE IF \E key \in DOMAIN res : res[key].exc # "none" THEN Raised(l)
     ELSE IF out.exc # "none" THEN Raised(l)
     ELSE [Stepped(n, l, p, name, AsJson(args), out.v) EXCEPT
             !.last_value = out.v.n]

legal_iteration(n, l, p) ==
  LET name == NormName(p.name)
      out  == legal_run_tool(Corpus, Corpus, name, p.args)
  IN IF p.shape = "not_json" THEN Raised(l)
     ELSE IF name \notin legal_VALID THEN Raised(l)
     ELSE IF name = n_stop THEN Stopped(l, p)
     ELSE IF out.exc # "none" THEN Raised(l)
     ELSE Stepped(n, l, p, name, p.args, out.v)

iteration(v, n, l, p) ==
  CASE v = "math_agent"  -> math_iteration(n, l, p)
    [] v = "Math_agent"  -> Math_iteration(n, l, p)
    [] v = "agent_clean" -> clean_iteration(n, l, p)
    [] v = "legal_agent" -> legal_iteration(n, l, p)

\* for _ in range(max_steps) over the planner's replies ps
RECURSIVE loop(_, _, _, _)
loop(v, n, l, ps) ==
  IF ps = <<>> \/ l.at # "plan" THEN l
  ELSE loop(v, n, iteration(v, n, l, Head(ps)), Tail(ps))

\* The answer after the loop, from the replies fs to the finalization calls.
finalized(v, l, fs) ==
  IF l.at # "finalize" \/ fs = <<>> THEN l
  ELSE IF v \in {"Math_agent", "agent_clean"}
  THEN [l EXCEPT !.at = "done", !.answer = Strip(fs[1])]
  ELSE LET r1 == FinalOf[fs[1]]
       IN IF r1.exc = "none" THEN [l EXCEPT !.at = "done", !.answer = r1.v.s]
          ELSE IF Len(fs) = 1 THEN [l EXCEPT !.at = "retry"]
          ELSE LET r2 == FinalOf[fs[2]]
               IN IF r2.exc = "none"
                  THEN [l EXCEPT !.at = "done", !.answer = r2.v.s]
                  ELSE Raised(l)

\* solve(q, max_steps = n) of agent v, alone, fed the replies ps and fs.
solve(v, q, n, ps, fs) ==
  LET l0 == [steps |-> <<>>, it |-> 0, at |-> "plan", answer |-> <<>>,
             last_value |-> None,
             env |-> IF v \in {"Math_agent", "agent_clean"}
                     THEN extract_env_vars(q) ELSE EmptyEnv]
  IN finalized(v, loop(v, n, l0, ps), fs)

\* -------------------------------------------- two interleaved invocations
\* The locals of the running invocation.
Locals ==
  [question |-> question, max_steps |-> max_steps, qid |-> qid, pc |-> pc,
   it |-> it, plan |-> plan, history |-> history, steps |-> steps,
   env |-> env, last_value |-> last_value, answer |-> answer,
   error |-> error, planCalls |-> planCalls, plansBack |-> plansBack,
   toolCalls |-> toolCalls, toolLog |-> toolLog, finalCalls |-> finalCalls,
   finalReplies |-> finalReplies, finalInput |-> finalInput, reply |-> reply,
   plannerInput |-> plannerInput, planReplies |-> planReplies, fout |-> fout]

\* A switch after which the invocation that resumes finds the environment
\* and the carry of the one that was running.
Switch_SharedEnv ==
  /\ runs = 2
  /\ other' = [Locals EXCEPT !.env = other.env,
                             !.last_value = other.last_value]
  /\ question' = other.question /\ max_steps' = other.max_steps
  /\ qid' = other.qid /\ pc' = other.pc /\ it' = other.it
  /\ plan' = other.plan /\ history' = other.history
  /\ steps' = other.steps /\ env' = env /\ last_value' = last_value
  /\ answer' = other.answer /\ error' = other.error
  /\ planCalls' = other.planCalls /\ plansBack' = other.plansBack
  /\ toolCalls' = other.toolCalls /\ toolLog' = other.toolLog
  /\ finalCalls' = other.finalCalls /\ finalReplies' = other.finalReplies
  /\ finalInput' = other.finalInput
  /\ reply' = other.reply /\ plannerInput' = other.plannerInput
  /\ planReplies' = other.planReplies /\ fout' = other.fout
  /\ UNCHANGED <<variant, client, docsCache, runs, call>>

\* Between two steps the other invocation is scheduled: question, history,
\* steps, env and the rest are locals of solve, so each invocation resumes
\* with its own; the module globals stay as they are.
Switch ==
  /\ runs = 2
  /\ other' = Locals
  /\ question' = other.question /\ max_steps' = other.max_steps
  /\ qid' = other.qid /\ pc' = other.pc /\ it' = other.it
  /\ plan' = other.plan /\ history' = other.history
  /\ steps' = other.steps /\ env' = other.env
  /\ last_value' = other.last_value
  /\ answer' = other.answer /\ error' = other.error
  /\ planCalls' = other.planCalls /\ plansBack' = other.plansBack
  /\ toolCalls' = other.toolCalls /\ toolLog' = other.toolLog
  /\ finalCalls' = other.finalCalls /\ finalReplies' = other.finalReplies
  /\ finalInput' = other.finalInput
  /\ reply' = other.reply /\ plannerInput' = other.plannerInput
  /\ planReplies' = other.planReplies /\ fout' = other.fout
  /\ UNCHANGED <<variant, client, docsCache, runs, call>>

\* Two invocations of one agent, none of them begun; a main passes the
\* same --max-steps to each.
Init2 ==
  /\ variant \in Variants
  /\ \E q1, q2 \in Questions, n \in 1..TwoBudget :
       /\ Running(Start(variant, q1, n, JStr(<<"q", "1">>)))
       /\ other = Start(variant, q2, n, JStr(<<"q", "1">>))
  /\ call = NoCall
  /\ client = "none"
  /\ docsCache = NotLoaded
  /\ runs = 2

Next ==
  \/ math_main \/ Math_main \/ legal_main
  \/ math_plan_step \/ math_body
  \/ Math_llm_plan_step \/ Math_body
  \/ clean_llm_plan_step \/ clean_body
  \/ legal_plan_step \/ legal_body
  \/ finalize_first \/ finalize_retry
  \/ Math_final \/ clean_final

Spec == Init /\ [][Next]_vars

\* solve has a statement to run next: a planner call, a loop body, or a
\* finalization call.
Runnable == pc \in {"plan", "body", "finalize", "retry"}

\* solve moves on from where it stands.
Advance ==
  /\ Runnable
  /\ pc' \in {"plan", "body", "finalize", "retry", "done", "failed"}
  /\ pc' # pc

\* The interpreter runs solve's next statement and the oracle answers every
\* call: while solve has something to run, it does not stand still forever.
FairSpec == Spec /\ WF_pc(Advance)

Next2 == Next \/ Switch

TwoSpec == Init2 /\ [][Next2]_vars

\* ------------------------------------------- functions called on their own
\* No solve is in flight while a function is called on its own.
NoSolve ==
  /\ variant = "math_agent"
  /\ Running([Start("math_agent", <<>>, 1, JNull) EXCEPT !.pc = "idle"])
  /\ client = "none"
  /\ docsCache = NotLoaded
  /\ runs = 0
  /\ other = NoRun

SolveUntouched ==
  UNCHANGED <<variant, question, max_steps, pc, it, plan, history, steps, env,
              last_value, answer, error, planCalls, plansBack, toolCalls,
              toolLog, finalCalls, finalReplies, finalInput, reply,
              plannerInput, planReplies, qid, fout, client, docsCache, runs,
              other>>

\* The call returns (or raises) out.
Returns(out) ==
  /\ ~call.done
  /\ call' = [call EXCEPT !.done = TRUE, !.out = out]
  /\ SolveUntouched

\* Numerators of the numbers handed to the arithmetic tools.
MaxNum == 4

\* The floats handed to the tools: quarters, halves and whole numbers.
Nums == {Rat(n, d) : n \in -MaxNum..MaxNum, d \in {1, 2, 4}}

IsSquareInt(n) == \E r \in 0..n : r * r = n
IsSquare(q) == q[1] >= 0 /\ IsSquareInt(q[1]) /\ IsSquareInt(q[2])

\* The arguments whose root or power is again one of these floats exactly:
\* a root of a square (or of a negative number, which has none), a whole
\* power, a half power of a square.
RootArgs == {x \in Nums : RLt(x, <<0, 1>>) \/ IsSquare(x)}
PowerArgs ==
  {ab \in Nums \X Nums :
     \/ RIsInt(ab[2]) \/ ~RLt(<<0, 1>>, ab[1])
     \/ (ab[2][2] = 2 /\ IsSquare(ab[1]))}

Registries == {"math_agent", "Math_agent"}

ToolCallOf(reg, name, kwargs) ==
  [fn |-> "run_tool", reg |-> reg, name |-> name, kwargs |-> kwargs,
   done |-> FALSE, out |-> Raise("none")]

\* run_tool(name, **kwargs) of either registry on numbers.
ArithCalls ==
  {ToolCallOf(reg, name, [a |-> ab[1], b |-> ab[2]]) :
     reg \in Registries, name \in {n_add, n_subtract, n_multiply, n_divide},
     ab \in Nums \X Nums}
  \cup {ToolCallOf(reg, n_power, [a |-> ab[1], b |-> ab[2]]) :
          reg \in Registries, ab \in PowerArgs}
  \cup {ToolCallOf(reg, n_square, [x |-> x]) : reg \in Registries, x \in Nums}
  \cup {ToolCallOf(reg, n_sqrt, [x |-> x]) : reg \in Registries, x \in RootArgs}

\* run_tool(name, **kwargs) of math_agent/tools.py or Math_agent/tools.py
run_tool ==
  /\ call.fn = "run_tool"
  /\ Returns(IF call.reg = "math_agent"
             THEN math_run_tool(call.name, call.kwargs)
             ELSE Math_run_tool(call.name, call.kwargs))

\* Decimal positions asked of round: -MaxDigits .. MaxDigits.
MaxDigits == 1

\* round(x, ndigits) of math_agent/tools.py, on multiples of 5/4: among
\* them the ties at the tens (5, 15), at the units (2.5) and at the tenths
\* (1.25).
RoundCalls ==
  {ToolCallOf("math_agent", n_round, [x |-> Rat(5 * n, d), ndigits |-> <<nd, 1>>]) :
     n \in -MaxNum..MaxNum, d \in {1, 2, 4}, nd \in -MaxDigits..MaxDigits}

\* ---- MHQA_agent/tools.py: HybridMergeTool ----

\* Longest list of documents a search hands to the merge.
MaxList == 2

\* Documents of the two searches: titles and texts over the letter a and
\* the separator character of the dedupe key.
MergeDocs ==
  {[title |-> t, text |-> x] : t \in {<<"a">>, <<"a", "|">>},
                               x \in {<<>>, <<"|">>}}

DocLists == UNION {[1..n -> MergeDocs] : n \in 0..MaxList}

\* doc.get("title","") + "|" + doc.get("text",""); the md5 digests of two
\* keys are taken to be equal exactly when the keys are.
merge_key(doc) == doc.title \o <<"|">> \o doc.text

\* The loop of HybridMergeTool.__call__ from document i of b + d on.
RECURSIVE merge_loop(_, _, _, _, _)
merge_loop(docs, i, seen, merged, k) ==
  IF i > Len(docs) THEN merged
  ELSE LET key == merge_key(docs[i])
           m2  == IF key \notin seen THEN Append(merged, docs[i]) ELSE merged
       IN IF Len(m2) >= k THEN m2
          ELSE merge_loop(docs, i + 1, seen \cup {key}, m2, k)

\* HybridMergeTool.__call__: the documents of stdout's {"docs": merged}.
hybrid_merge(b, d, k) == merge_loop(b \o d, 1, {}, <<>>, k)

MergeCalls ==
  {[fn |-> "hybrid_merge", bm25 |-> b, dense |-> d, k |-> k,
    done |-> FALSE, out |-> Raise("none")] :
     b \in DocLists, d \in DocLists, k \in 0..(MaxList + 1)}

HybridMergeTool ==
  /\ call.fn = "hybrid_merge"
  /\ Returns(Ok(hybrid_merge(call.bm25, call.dense, call.k)))

\* ---- legal_agent/tools.py: retrieve on its own ----

\* Most document files in the collection folder.
MaxCorpus == 3

\* Document files: two share the doc_id and differ in the title, two share
\* doc_id and title and differ in the text.
RetrieveDocs ==
  { [doc_id |-> <<"C", "H", "1">>, title |-> <<"T", "a", "x">>, text |-> <<"t", "a", "x", " ", "l", "a", "w">>],
    [doc_id |-> <<"C", "H", "1">>, title |-> <<"R", "e", "n", "t">>, text |-> <<"r", "e", "n", "t", " ", "l", "a", "w">>],
    [doc_id |-> <<"C", "H", "2">>, title |-> <<"T", "a", "x">>, text |-> <<"l", "a", "w", " ", "t", "a", "x">>],
    [doc_id |-> <<"C", "H", "1">>, title |-> <<"T", "a", "x">>, text |-> <<"l", "a", "w", " ", "t", "a", "x">>] }

\* _load_corpus(): the files in the order of their names, which the
\* documents' own fields do not determine.
Loads ==
  UNION {{l \in [1..n -> RetrieveDocs] : \A i, j \in 1..n : l[i] = l[j] => i = j} :
           n \in 0..MaxCorpus}

Queries == {<<"t", "a", "x">>, <<"r", "e", "n", "t">>, <<"l", "a", "w">>, <<"t", "h", "e">>, <<"t", "a", "x", " ", "l", "a", "w">>}

RetrieveCalls ==
  {[fn |-> "retrieve", docs |-> l, query |-> q, k |-> k,
    done |-> FALSE, out |-> Raise("none")] :
     l \in Loads, q \in Queries, k \in 0..(MaxCorpus + 1)}

\* retrieve(query, k) with _docs() returning the loaded collection.
Retrieve ==
  /\ call.fn = "retrieve"
  /\ Returns(Ok(retrieve(call.docs, call.query, call.k)))

\* ---- legal_agent/tools.py: run_tool("quote", ...) on its own ----

\* How far the bounds asked of quote lie outside the ends of a text.
MaxOver == 1

\* An integer argument whose size is beyond the largest float (about
\* 1.8e308), by its sign; Python's int has no such limit. float() of it
\* raises OverflowError, which run_tool turns into its ToolError.
JBig(sign) == [k |-> "big", n |-> <<sign, 1>>, s |-> <<>>, l |-> <<>>]

\* Document files for quote: a text of 3 characters and one 3 characters
\* longer than MAX_SPAN.
QuoteFiles ==
  << [doc_id |-> <<"C", "H", "1">>, title |-> <<"T">>, text |-> <<"a", "b", "c">>],
     [doc_id |-> <<"C", "H", "2">>, title |-> <<"T">>,
      text |-> [i \in 1..(MAX_SPAN + 3) |->
                  IF \E r \in 1..21 : r * r = i THEN "x" ELSE "."]] >>

\* Integer bounds around the ends of the two texts and around MAX_SPAN.
QuoteBounds ==
  {JNum(<<i, 1>>) : i \in (-MaxOver..(3 + MaxOver))
                          \cup ((MAX_SPAN - MaxOver)..(MAX_SPAN + 3 + MaxOver))}
    \cup {JBig(1), JBig(-1)}

QuoteCalls ==
  {[fn |-> "quote",
    kwargs |-> [doc_id |-> JStr(QuoteFiles[f].doc_id), start |-> a, end |-> b],
    done |-> FALSE, out |-> Raise("none")] :
     f \in 1..2, a \in QuoteBounds, b \in QuoteBounds}

\* run_tool("quote", doc_id=..., start=..., end=...)
Quote ==
  /\ call.fn = "quote"
  /\ Returns(legal_run_tool(<<>>, QuoteFiles, n_quote, call.kwargs))

\* ---- extract_final_answer / extract_final on its own ----

\* Most pieces a response is put together from.
MaxPieces == 3

\* Pieces of a response: tags in several spellings, a code fence, text.
Pieces ==
  { <<"<", "f", "i", "n", "a", "l", ">">>, <<"<", "/", "f", "i", "n", "a", "l", ">">>, <<"<", " ", "F", "I", "N", "A", "L", " ", ">">>, <<"<", "/", " ", "F", "i", "n", "a", "l", " ", ">">>, <<"<", " ", "/", "f", "i", "n", "a", "l", ">">>,
    <<Backtick, Backtick, Backtick>>, <<" ", "7", " ">>, <<"x", "\n">> }

RECURSIVE Concat(_)
Concat(ps) == IF ps = <<>> THEN <<>> ELSE Head(ps) \o Concat(Tail(ps))

Responses == {Concat(ps) : ps \in UNION {[1..n -> Pieces] : n \in 0..MaxPieces}}

FinalAnswerCalls ==
  {[fn |-> "extract_final_answer", text |-> t, done |-> FALSE, out |-> Raise("none")] :
     t \in Responses}

\* extract_final_answer(text) of the math agents, extract_final(text) of
\* the legal agent
extract_final ==
  /\ call.fn = "extract_final_answer"
  /\ Returns(extract_final_answer(call.text))

\* ---- Math_agent/agent_clean.py: extract_json_block on its own ----

\* Longest model output handed to extract_json_block.
MaxText == 4

\* text.find(c): the first position of c (1-based), or 0.
Find(text, c) ==
  IF \E i \in 1..Len(text) : text[i] = c
  THEN CHOOSE i \in 1..Len(text) : text[i] = c /\ \A j \in 1..(i - 1) : text[j] # c
  ELSE 0

\* The for loop of extract_json_block at position i with the depth so far.
RECURSIVE block_scan(_, _, _, _)
block_scan(text, start, i, depth) ==
  IF i > Len(text) THEN Raise("ValueError")
  ELSE IF text[i] = "{" THEN block_scan(text, start, i + 1, depth + 1)
  ELSE IF text[i] = "}"
  THEN (IF depth - 1 = 0 THEN Ok(JStr(SubSeq(text, start, i)))
        ELSE block_scan(text, start, i + 1, depth - 1))
  ELSE block_scan(text, start, i + 1, depth)

\* extract_json_block(text)
extract_json_block(text) ==
  LET start == Find(text, "{")
  IN IF start = 0 THEN Raise("ValueError")
     ELSE block_scan(text, start, start, 0)

BlockTexts == UNION {[1..n -> {"{", "}", "a"}] : n \in 0..MaxText}

BlockCalls ==
  {[fn |-> "extract_json_block", text |-> t, done |-> FALSE, out |-> Raise("none")] :
     t \in BlockTexts}

\* block = extract_json_block(txt) in llm_plan_step
json_block ==
  /\ call.fn = "extract_json_block"
  /\ Returns(extract_json_block(call.text))

Calls ==
  ArithCalls \cup RoundCalls \cup MergeCalls \cup RetrieveCalls \cup QuoteCalls
    \cup FinalAnswerCalls \cup BlockCalls

InitT == NoSolve /\ call \in Calls

NextT ==
  \/ run_tool \/ HybridMergeTool \/ Retrieve \/ Quote \/ extract_final
  \/ json_block

ToolSpec == InitT /\ [][NextT]_vars

\* ---- the observation message of math_agent and legal_agent on its own ----

\* obs_text[:2000]
OBS_CAP == 2000

\* json.dumps of one character of a string (ensure_ascii=False).
EscChar(c) ==
  IF c = "\"" THEN <<"\\", "\"">>
  ELSE IF c = "\\" THEN <<"\\", "\\">>
  ELSE IF c = "\n" THEN <<"\\", "n">>
  ELSE <<c>>

RECURSIVE Escaped(_)
Escaped(str) ==
  IF Len(str) = 0 THEN <<>>
  ELSE IF Len(str) = 1 THEN EscChar(str[1])
  ELSE Escaped(SubSeq(str, 1, Len(str) \div 2))
         \o Escaped(SubSeq(str, Len(str) \div 2 + 1, Len(str)))

\* json.dumps(result, ensure_ascii=False) of a text result or of None.
json_dumps(result) ==
  IF result.k = "str" THEN <<"\"">> \o Escaped(result.s) \o <<"\"">>
  ELSE <<"n", "u", "l", "l">>

ObsPrefix == <<"O", "b", "s", "e", "r", "v", "a", "t", "i", "o", "n", ":", " ">>

\* An observation whose payload is not cut.
observation_text_Uncapped(result) == ObsPrefix \o json_dumps(result)

\* f"Observation: {obs_text[:2000]}"
observation_text(result) == ObsPrefix \o SliceTo(json_dumps(result), OBS_CAP)

\* Tool results around the cap: a few characters that json.dumps escapes
\* or not, then a run of one letter.
ObsResults ==
  {JNull} \cup
  {JStr(h \o [i \in 1..m |-> "a"]) :
     h \in {<<>>, <<"\"">>, <<"\n", "b">>},
     m \in {0} \cup ((OBS_CAP - 3 - MaxOver)..(OBS_CAP + MaxOver))}

ObsCalls ==
  {[fn |-> "observation", result |-> r, done |-> FALSE, out |-> Raise("none")] :
     r \in ObsResults}

\* history.append({"role": "system", "content": f"Observation: ..."})
observation ==
  /\ call.fn = "observation"
  /\ Returns(Ok(JStr(observation_text(call.result))))

\* A solve with its main, or the observation message built on its own.
ObsSpec ==
  (Init \/ (NoSolve /\ call \in ObsCalls)) /\ [][Next \/ observation]_vars

\* --------------------------------------- plans holding the required keys
\* The numbers a keyed plan passes.
KeyNumbers == {<<4, 1>>, <<-2, 1>>}

\* Planner replies whose args hold exactly the keys the tool requires,
\* with numeric values.
KeyedPlans ==
  {Plan(name, <<"a", "b">>, [a |-> JNum(va), b |-> JNum(vb)]) :
     name \in {n_add, n_subtract, n_multiply, n_divide, n_power},
     va \in KeyNumbers, vb \in KeyNumbers}
  \cup {Plan(name, <<"x">>, [x |-> JNum(vx)]) :
          name \in {n_square, n_sqrt}, vx \in KeyNumbers}

\* The VALID set of a math variant.
VALID_of(v) ==
  IF v = "math_agent" THEN math_VALID
  ELSE IF v = "Math_agent" THEN Math_VALID
  ELSE clean_VALID

\* solve of a math variant just after its first planner call returned the
\* keyed plan p.
Planned(v, q, n, id, p) ==
  LET s == Start(v, q, n, id)
  IN [s EXCEPT !.pc = "body", !.plan = p, !.reply = p,
               !.planCalls = 1, !.plansBack = 1, !.planReplies = <<p>>,
               !.plannerInput = IF v \in {"Math_agent", "agent_clean"}
                                THEN <<SystemPrompt>> \o s.history
                                ELSE s.history]

KeyedInit ==
  /\ variant \in {"math_agent", "Math_agent", "agent_clean"}
  /\ \E q \in Questions, n \in 1..MaxBudget, id \in QIds :
     \E p \in {kp \in KeyedPlans : kp.name \in VALID_of(variant)} :
       Running(Planned(variant, q, n, id, p))
  /\ client = "OpenAI"
  /\ docsCache = NotLoaded
  /\ runs = 1
  /\ other = NoRun
  /\ call = NoCall

\* A solve from its start, or from the return of a keyed first plan.
KeySpec == (Init \/ KeyedInit) /\ [][Next]_vars

\* ------------------------------------------------- a main and its dataset
\* The number of examples in the dataset file.
MaxData == 2

\* The dataset: example i of the file, an object with id and question; the
\* third has an empty question.
Example(i) ==
  [id |-> JStr(<<"q", <<"1", "2", "3", "4", "5">>[i]>>),
   question |-> CASE i % 3 = 1 -> <<"x", "=", "4", ",", " ", "y", "=", "-", "3", ".", "5">>
                  [] i % 3 = 2 -> <<"r", "=", "2">>
                  [] OTHER -> <<>>]

\* The question main hands to solve: legal_agent/main.py strips it.
Asked(ex) ==
  IF variant = "legal_agent" THEN Strip(ex.question) ELSE ex.question

\* solve is entered with the locals l.
Begins(l) ==
  /\ question' = l.question /\ max_steps' = l.max_steps /\ qid' = l.qid
  /\ pc' = l.pc /\ it' = l.it /\ plan' = l.plan /\ history' = l.history
  /\ steps' = l.steps /\ env' = l.env /\ last_value' = l.last_value
  /\ answer' = l.answer /\ error' = l.error /\ planCalls' = l.planCalls
  /\ plansBack' = l.plansBack /\ toolCalls' = l.toolCalls
  /\ toolLog' = l.toolLog /\ finalCalls' = l.finalCalls
  /\ finalReplies' = l.finalReplies /\ finalInput' = l.finalInput
  /\ reply' = l.reply /\ plannerInput' = l.plannerInput
  /\ planReplies' = l.planReplies /\ fout' = l.fout

\* A main that goes on to the next example after a solve that raised,
\* leaving no record for it.
next_example_Tolerant ==
  /\ other.pc = "main" /\ other.next <= MaxData
  /\ \/ pc = "done" /\ fout # <<>>
     \/ pc = "failed"
  /\ LET ex == Example(other.next)
     IN IF variant = "legal_agent" /\ Asked(ex) = <<>>
        THEN /\ other' = [other EXCEPT !.next = @ + 1]
             /\ UNCHANGED <<question, max_steps, qid, pc, it, plan, history,
                            steps, env, last_value, answer, error, planCalls,
                            plansBack, toolCalls, toolLog, finalCalls,
                            finalReplies, finalInput, reply, plannerInput,
                            planReplies, fout>>
        ELSE /\ other' = [pc |-> "main", file |-> other.file \o fout,
                          next |-> other.next + 1]
             /\ Begins(Start(variant, Asked(ex), max_steps, ex.id))
  /\ UNCHANGED <<variant, client, docsCache, runs, call>>

\* The for statement of a main after a record was written: the next example
\* is read; legal_agent's main goes on to the one after it when the
\* question is empty, every main otherwise calls solve on it with the same
\* --max-steps. The records written so far stay in the file.
next_example ==
  /\ other.pc = "main" /\ other.next <= MaxData
  /\ pc = "done" /\ fout # <<>>
  /\ LET ex == Example(other.next)
     IN IF variant = "legal_agent" /\ Asked(ex) = <<>>
        THEN /\ other' = [other EXCEPT !.next = @ + 1]
             /\ UNCHANGED <<question, max_steps, qid, pc, it, plan, history,
                            steps, env, last_value, answer, error, planCalls,
                            plansBack, toolCalls, toolLog, finalCalls,
                            finalReplies, finalInput, reply, plannerInput,
                            planReplies, fout>>
        ELSE /\ other' = [pc |-> "main", file |-> other.file \o fout,
                          next |-> other.next + 1]
             /\ Begins(Start(variant, Asked(ex), max_steps, ex.id))
  /\ UNCHANGED <<variant, client, docsCache, runs, call>>

\* A main that has opened its output file and calls solve on the first
\* example.
InitData ==
  /\ variant \in Variants
  /\ \E n \in 1..TwoBudget :
       Running(Start(variant, Asked(Example(1)), n, Example(1).id))
  /\ other = [pc |-> "main", file |-> <<>>, next |-> 2]
  /\ client = "none"
  /\ docsCache = NotLoaded
  /\ runs = 1
  /\ call = NoCall

DataSpec == InitData /\ [][Next \/ next_example]_vars

\* ------------------------------------------------------------- properties
MathVariants == {"math_agent", "Math_agent", "agent_clean"}
TaggedFinalizers == {"math_agent", "legal_agent"}

IsStopStep(s) == s.function = n_stop
NoStopStep == \A i \in 1..Len(steps) : ~IsStopStep(steps[i])
LoopOver == pc \in {"finalize", "retry", "done"} \/ finalCalls > 0

\* C1: a solve with budget max_steps calls the planner at most max_steps
\* times and records at most max_steps Steps; when the loop ends with no
\* stop and every plan executed, exactly max_steps planner calls and Steps
\* were made; once finalization has begun the planner is not called again.
C1_StepBudget ==
  /\ planCalls <= max_steps
  /\ Len(steps) <= max_steps
  /\ (LoopOver /\ NoStopStep /\ Len(toolLog) = planCalls)
       => (planCalls = max_steps /\ Len(steps) = max_steps)
  /\ finalCalls > 0 => pc \in {"retry", "done", "failed"}

C1_Witness ==
  /\ max_steps = MaxBudget /\ pc = "done" /\ finalCalls > 0
  /\ NoStopStep /\ Len(toolLog) = planCalls
  /\ planCalls = max_steps /\ Len(steps) = max_steps

StopStepsLast ==
  /\ \A i \in 1..Len(steps) :
       IsStopStep(steps[i]) =>
         /\ i = Len(steps)
         /\ steps[i].tool_call = [name |-> n_stop, args |-> NoArgs]
         /\ steps[i].tool_result = JNull
         /\ pc \notin {"plan", "body"}
  /\ (pc = "body" /\ NormName(plan.name) = n_stop) => NoStopStep

\* Processing a stop plan appends the stop Step, runs no tool and leaves
\* the loop.
StopHandled ==
  (pc = "body" /\ NormName(plan.name) = n_stop)
    => /\ steps' = Append(steps, StopStep(Thought))
       /\ toolCalls' = toolCalls /\ toolLog' = toolLog
       /\ planCalls' = planCalls
       /\ pc' = "finalize"

\* C3: a stop plan records exactly one Step (function stop, empty arguments,
\* null result), runs no tool and ends the loop with no further planner
\* call; a trace holds at most one stop Step and it is the last Step.
C3_StopStep == []StopStepsLast /\ [][StopHandled]_vars

C3_Witness ==
  /\ Len(steps) = 2 /\ IsStopStep(steps[2]) /\ ~IsStopStep(steps[1])
  /\ planCalls = 2 /\ max_steps = MaxBudget /\ toolCalls = 1
  /\ pc = "done"

\* The action names the running variant supports.
ValidNames ==
  CASE variant = "math_agent"  -> math_VALID
    [] variant = "Math_agent"  -> Math_VALID
    [] variant = "agent_clean" -> clean_VALID
    [] variant = "legal_agent" -> legal_VALID

\* The argument keys the running math variant reads for tool name.
Params(name) ==
  IF name \in {n_add, n_subtract, n_multiply, n_divide} THEN {"a", "b"}
  ELSE IF name = n_power
  THEN (IF variant = "math_agent" THEN {"x", "y"} ELSE {"a", "b"})
  ELSE IF name \in {n_square, n_sqrt, n_round} THEN {"x"}
  ELSE {}

\* The running math variant's resolution of the raw argument val.
ResolveOf(val) ==
  CASE variant = "math_agent"  -> math_resolve_arg(val, env)
    [] variant = "Math_agent"  -> Math_resolve_arg(val, env, last_value)
    [] variant = "agent_clean" -> clean_resolve_arg(val, env)

\* The loop body of a math variant holds a plan for one of its tools.
AtMathTool ==
  /\ pc = "body" /\ variant \in MathVariants
  /\ NormName(plan.name) \in ValidNames \ {n_stop}

\* ... an argument of which is missing,
MissingArg ==
  /\ AtMathTool
  /\ ~(Params(NormName(plan.name)) \subseteq DOMAIN plan.args)

\* ... or all of which are given and one does not resolve.
ResolutionFails ==
  /\ AtMathTool
  /\ Params(NormName(plan.name)) \subseteq DOMAIN plan.args
  /\ \E key \in Params(NormName(plan.name)) :
       ResolveOf(plan.args[key]).exc # "none"

\* The iteration ends with a corrective system message in the history and
\* the solve still running.
Recovered ==
  /\ pc' \in {"plan", "finalize"} /\ error' = "none"
  /\ it' = it + 1
  /\ Len(history') > Len(history)
  /\ history'[Len(history')].role = "system"

\* C4: in every math variant an argument that does not resolve never aborts
\* the solve: a corrective observation is appended and the loop goes on.
C4_ResolutionRecovered == [][ResolutionFails => Recovered]_vars

\* C5: a plan that lacks a declared argument (add without b) is recovered
\* locally: it consumes one iteration and the loop goes on.
C5_MissingArgRecovered == [][MissingArg => Recovered]_vars

\* run_tool is called and raises, or the plan names no tool of the variant.
ToolFails ==
  /\ pc = "body"
  /\ \/ NormName(plan.name) \notin ValidNames
     \/ (toolCalls' = toolCalls + 1 /\ toolLog' = toolLog)

\* C6: a tool-execution failure (division by zero, square root of a
\* negative, a bad power, an unknown tool) is fed back as a corrective
\* observation and never terminates the solve.
C6_ToolFailureRecovered == [][ToolFails => Recovered]_vars

NonStopSteps == SelectSeq(steps, LAMBDA s : ~IsStopStep(s))

\* C7: every successful tool execution is followed by exactly one Step
\* whose function, tool_call and tool_result are that execution's name,
\* arguments and result; the non-stop Steps correspond one to one and in
\* order to the successful tool executions.
C7_StepPerExecution ==
  /\ Len(NonStopSteps) = Len(toolLog)
  /\ \A i \in 1..Len(toolLog) :
       /\ NonStopSteps[i].function = toolLog[i].name
       /\ NonStopSteps[i].tool_call =
            [name |-> toolLog[i].name, args |-> toolLog[i].args]
       /\ NonStopSteps[i].tool_result = toolLog[i].result

C7_Witness ==
  /\ Len(toolLog) = 2 /\ Len(steps) = 3 /\ IsStopStep(steps[3])
  /\ toolLog[1] # toolLog[2]
  /\ steps[1].tool_result = toolLog[1].result
  /\ steps[2].tool_result = toolLog[2].result

\* C8: every plan the planner returns, the rejected ones included, leaves
\* one Step: between iterations the Steps are as many as the plans.
C8_StepPerPlan == pc # "body" => Len(steps) = plansBack

\* The carry of the running math variant (None while undefined).
Carry ==
  IF variant = "math_agent"
  THEN (IF "r" \in DOMAIN env THEN env["r"] ELSE None)
  ELSE last_value

\* The argument val is the carry symbol of the running variant.
RefersCarry(val) ==
  /\ val.k = "str"
  /\ \/ variant = "math_agent" /\ StrLower(Strip(val.s)) = <<"r">>
     \/ variant = "Math_agent" /\ Strip(val.s) = <<"r">>

CarryTracksLog ==
  variant \in MathVariants =>
    IF toolLog = <<>> THEN Carry = None
    ELSE Carry = toolLog[Len(toolLog)].result.n

CarryUndefinedFails ==
  (/\ AtMathTool
   /\ Params(NormName(plan.name)) \subseteq DOMAIN plan.args
   /\ \E key \in Params(NormName(plan.name)) : RefersCarry(plan.args[key])
   /\ Carry = None)
    => /\ toolCalls' = toolCalls /\ toolLog' = toolLog /\ steps' = steps
       /\ \/ pc' = "failed" /\ error' = "ValueError"
          \/ history'[Len(history')].tag = "Error"

\* C9: the carry is undefined until a tool has executed successfully and
\* otherwise is the result of the latest successful execution; a plan that
\* refers to the carry while it is undefined fails resolution and runs no
\* tool.
C9_Carry == []CarryTracksLog /\ [][CarryUndefinedFails]_vars

C9_Witness ==
  /\ variant = "Math_agent" /\ question = <<"r", "=", "2">>
  /\ \E i \in 1..Len(history) : history[i] = ErrorMsg(JStr(<<"r">>))
  /\ Len(toolLog) = 1 /\ last_value = toolLog[1].result.n
  /\ toolCalls = 1 /\ plansBack = 2

\* The letters an argument can name.
Symbols == Lower \cup Upper

\* The given arguments of the plan that are single letters other than the
\* carry symbol, and the letter such an argument names.
SymbolOf(val) == Strip(val.s)[1]
SymbolArgs ==
  {key \in Params(NormName(plan.name)) :
     /\ plan.args[key].k = "str"
     /\ Len(Strip(plan.args[key].s)) = 1
     /\ SymbolOf(plan.args[key]) \in Symbols \ {"r", "R"}}

\* A plan for a math tool with all arguments given, some of them symbols.
SymbolPlan ==
  /\ AtMathTool
  /\ Params(NormName(plan.name)) \subseteq DOMAIN plan.args
  /\ SymbolArgs # {}

\* C10: in every math variant the environment is seeded from the question's
\* letter = number assignments: a symbol resolves to the value the question
\* assigns it (the tool is called with that value), and a symbol the
\* question does not define is unresolvable (no tool is called).
C10_SeededEnv ==
  [][SymbolPlan =>
       LET qenv == extract_env_vars(question)
           rest == Params(NormName(plan.name)) \ SymbolArgs
       IN IF \E key \in SymbolArgs : SymbolOf(plan.args[key]) \notin DOMAIN qenv
          THEN toolCalls' = toolCalls /\ steps' = steps
          ELSE (\A key \in rest : ResolveOf(plan.args[key]).exc = "none")
                 => /\ toolCalls' = toolCalls + 1
                    /\ toolLog' # toolLog =>
                         \A key \in SymbolArgs :
                           toolLog'[Len(toolLog')].args[key] =
                             JNum(qenv[SymbolOf(plan.args[key])])]_vars

\* The key set the arity check is said to demand of a tool's arguments.
RequiredKeys(name) ==
  IF name \in {n_add, n_subtract, n_multiply, n_divide, n_power}
  THEN {"a", "b"}
  ELSE {"x"}

\* A plan for an arithmetic tool whose argument keys are not that set.
KeysDiffer ==
  /\ AtMathTool
  /\ NormName(plan.name) \in {n_add, n_subtract, n_multiply, n_divide,
                              n_power, n_square, n_sqrt}
  /\ DOMAIN plan.args # RequiredKeys(NormName(plan.name))

\* C11: the arity check fails whenever the keys of the action's arguments
\* differ from the tool's required keys, missing or extra, and it fails
\* before any argument is resolved (so before any tool is called).
C11_ArityCheck ==
  [][KeysDiffer => /\ pc' = "failed" /\ error' = "ValueError"
                   /\ toolCalls' = toolCalls /\ steps' = steps]_vars

\* The reply p parses to an object whose action name, trimmed and
\* lower-cased, is no action of the running variant.
InvalidName(p) ==
  /\ p.shape \in {"ok", "no_thought", "no_args"}
  /\ NormName(p.name) \notin ValidNames

\* After such a reply the solve is failing or has failed, with nothing run.
InvalidNameEndsSolve ==
  /\ \A i \in 1..Len(steps) : steps[i].function \in ValidNames
  /\ InvalidName(reply) =>
       /\ pc \in {"body", "failed"}
       /\ pc = "body" => plan = reply
       /\ finalCalls = 0

\* The planner call that returns it and the loop body that sees it run no
\* tool, append no Step and call no finalization.
InvalidNameRunsNothing ==
  /\ (planCalls' = planCalls + 1 /\ InvalidName(reply'))
       => /\ steps' = steps /\ toolCalls' = toolCalls
          /\ finalCalls' = finalCalls
          /\ pc' \in {"body", "failed"}
  /\ (pc = "body" /\ InvalidName(plan))
       => /\ pc' = "failed" /\ error' # "none"
          /\ steps' = steps /\ toolCalls' = toolCalls
          /\ finalCalls' = finalCalls

\* C12: a planner action whose trimmed, lower-cased name is outside VALID
\* makes solve fail at once: no tool runs, no Step is appended and
\* finalization is not invoked; the function of every Step is in VALID.
C12_UnknownNameFails == []InvalidNameEndsSolve /\ [][InvalidNameRunsNothing]_vars

C12_Witness ==
  /\ variant = "math_agent" /\ pc = "failed" /\ error = "ValueError"
  /\ reply.name = <<"m", "o", "d", "u", "l", "o">>
  /\ Len(steps) = 1 /\ toolCalls = 1 /\ finalCalls = 0 /\ planCalls = 2

\* The reply p is not a JSON object holding a thought and an action with a
\* name and an object of args.
Malformed(p) == p.shape \in {"not_json", "no_thought", "no_args"}

\* C13: planner output that is not an object holding thought and
\* action{name, args} is rejected as malformed before any Step is recorded
\* or any tool is executed; no missing field is defaulted.
C13_MalformedRejected ==
  [][/\ (planCalls' = planCalls + 1 /\ Malformed(reply'))
          => /\ steps' = steps /\ toolCalls' = toolCalls
             /\ pc' \in {"body", "failed"}
     /\ (pc = "body" /\ Malformed(plan))
          => /\ pc' = "failed" /\ error' # "none"
             /\ steps' = steps /\ toolCalls' = toolCalls]_vars

\* C14: in every variant the answer solve returns is the text inside the
\* final tag of an oracle reply obtained after the loop; an untagged reply
\* is never returned as the answer.
C14_AnswerFromTag ==
  pc = "done" =>
    /\ finalReplies # <<>>
    /\ finalReplies[Len(finalReplies)] \in TaggedTexts
    /\ answer = <<"7">>
    /\ answer \notin {Strip(finalReplies[i]) : i \in 1..Len(finalReplies)}

\* s is an initial part of t.
IsPrefix(s, t) == Len(s) <= Len(t) /\ SubSeq(t, 1, Len(s)) = s

\* s is a final part of t.
IsSuffix(s, t) ==
  Len(s) <= Len(t) /\ SubSeq(t, Len(t) - Len(s) + 1, Len(t)) = s

\* C16: the history is append-only (each step leaves the messages it had
\* in place and at most adds messages after them) and every planner call
\* is sent the whole history accumulated so far.
C16_HistoryAppendOnly ==
  [][/\ IsPrefix(history, history')
     /\ planCalls' = planCalls + 1 =>
          /\ IsSuffix(history, plannerInput')
          /\ Len(plannerInput') <= Len(history) + 1]_vars

C16_Witness ==
  /\ variant = "legal_agent" /\ planCalls = MaxBudget /\ pc = "done"
  /\ Len(history) = 2 + 2 * MaxBudget
  /\ plannerInput = SubSeq(history, 1, 2 * MaxBudget)
  /\ history[3].tag = "plan_json" /\ history[4].tag = "Observation"

\* A whole record of this question's trajectory: every field of the
\* schema, carrying what solve returned.
CompleteLine(line) ==
  /\ DOMAIN line = {"id", "task", "question", "context", "steps", "answer",
                    "meta"}
  /\ line.question = question /\ line.steps = steps /\ line.answer = answer
  /\ {"model", "max_steps", "afm_version"} \subseteq DOMAIN line.meta
  /\ line.meta.max_steps = max_steps

WrittenAfterSolve ==
  fout # <<>> => /\ pc = "done" /\ Len(fout) = 1 /\ CompleteLine(fout[1])

WriteIsOneLine ==
  fout' # fout => /\ pc = "done" /\ fout = <<>> /\ Len(fout') = 1
                   /\ UNCHANGED <<pc, steps, answer>>

\* C17: a main writes a question's record only after solve has returned,
\* as one complete line and in one write; while solve is running, and when
\* it has failed, nothing at all has been written for the question.
C17_WriteAfterSolve == []WrittenAfterSolve /\ [][WriteIsOneLine]_vars

\* A record written after a solve that used its whole budget and both
\* finalization calls.
C17_Witness ==
  /\ variant = "math_agent" /\ fout # <<>> /\ finalCalls = 2
  /\ Len(steps) = MaxBudget /\ max_steps = MaxBudget
  /\ fout[1].steps = steps /\ fout[1].answer = <<"7">>

\* Both invocations were given the same question, budget and record id,
\* and the oracle gave both the same replies in the same order.
SameInputs ==
  /\ other.question = question /\ other.max_steps = max_steps
  /\ other.qid = qid
SameResponses ==
  /\ other.planReplies = planReplies /\ other.finalReplies = finalReplies

BothReturned == pc = "done" /\ other.pc = "done"
BothWritten == fout # <<>> /\ other.fout # <<>>

\* The mains whose serialization is source of this repository.
SerializerInSource == variant \in {"Math_agent", "legal_agent"}

\* The part of C15 about what solve returns.
SameStepsAndAnswer ==
  (SameInputs /\ SameResponses /\ BothReturned)
    => (steps = other.steps /\ answer = other.answer)

\* C15: two runs on the same question and budget that get the same oracle
\* responses return the same Steps and answer and serialize to the same
\* trajectory record (stated for Math_agent/main.py and legal_agent/main.py).
C15_Deterministic ==
  (SerializerInSource /\ SameInputs /\ SameResponses /\ BothWritten)
    => (steps = other.steps /\ answer = other.answer /\ fout = other.fout)

\* The replies an invocation with locals l has processed: a plan that has
\* come back and waits in the loop body has not been processed yet.
Processed(l) ==
  IF l.pc = "body" THEN SubSeq(l.planReplies, 1, Len(l.planReplies) - 1)
  ELSE l.planReplies

\* An invocation with locals l stands where solve, run on its own with the
\* replies l has had, stands: same Steps, same answer, same outcome.
AsAlone(l) ==
  LET a == solve(variant, l.question, l.max_steps, Processed(l),
                 l.finalReplies)
  IN /\ l.steps = a.steps /\ l.answer = a.answer
     /\ l.env = a.env /\ l.last_value = a.last_value
     /\ l.pc = (IF l.pc = "body" THEN "body" ELSE a.at)

BothAsAlone == AsAlone(Locals) /\ AsAlone(other)

\* A step is a step of the running invocation, which leaves the locals of
\* the other as they are, or a switch, which hands both over untouched.
OwnLocalsOnly == other' = other \/ (other' = Locals /\ Locals' = other)

\* The module globals are assigned once.
SharedSetOnce ==
  /\ client # "none" => client' = client
  /\ docsCache.loaded => docsCache' = docsCache

\* C19: two invocations interleaved at every oracle call and tool call
\* each build the Steps and the answer that solve builds alone from the
\* same replies; no step of one changes the history, environment or carry
\* of the other, and the shared client and document cache do not change
\* once they are initialized.
C19_Independent ==
  []BothAsAlone /\ [][OwnLocalsOnly /\ SharedSetOnce]_vars

\* Two Math_agent invocations for different questions, both under way,
\* each with a carry of its own.
C19_Witness ==
  /\ variant = "Math_agent" /\ runs = 2 /\ question # other.question
  /\ pc = "body" /\ Len(steps) = 1 /\ other.pc = "finalize"
  /\ Len(other.steps) = 2 /\ last_value # None /\ other.last_value # None
  /\ last_value # other.last_value /\ client = "OpenAI"

\* What a caller gets from a solve that failed: the exception, whose type
\* is error and whose message is built, at most, from the reply that was
\* being processed.
Surfaced(l) ==
  [type |-> l.error, reply |-> l.reply, finals |-> l.finalReplies]

\* C18: the failure a caller gets from solve identifies the step at which
\* it occurred: two failures that look the same to the caller occurred at
\* the same step index.
C18_FailureNamesStep ==
  (pc = "failed" /\ other.pc = "failed" /\ Surfaced(Locals) = Surfaced(other))
    => it = other.it

Terminal == pc \in {"done", "failed"}

CallsBounded == planCalls <= max_steps /\ finalCalls <= 2

\* C20: with an oracle that answers every call, solve reaches a terminal
\* state (it returns or it fails) after at most max_steps planner calls
\* and at most two finalization calls, whatever the replies.
C20_Terminates == []CallsBounded /\ <>[]Terminal

\* A Math_agent solve that has returned although every iteration of its
\* budget ended in a recovered argument error.
C20_Witness ==
  /\ variant = "Math_agent" /\ pc = "done" /\ max_steps = MaxBudget
  /\ it = MaxBudget /\ planCalls = MaxBudget /\ steps = <<>>
  /\ toolCalls = 0 /\ finalCalls = 1
  /\ \A i \in 1..MaxBudget : history[2 * i + 1].tag = "Error"

\* The inputs the arithmetic tools are meant to refuse.
OutOfDomain(c) ==
  \/ c.name = n_divide /\ RIsZero(c.kwargs["b"])
  \/ c.name = n_sqrt /\ RLt(c.kwargs["x"], <<0, 1>>)
  \/ c.name = n_power /\ RLt(c.kwargs["a"], <<0, 1>>)
                       /\ ~RIsInt(c.kwargs["b"])

ArithToolNames ==
  {n_add, n_subtract, n_multiply, n_divide, n_square, n_power, n_sqrt}

\* C21: in both registries the arithmetic tools fail on divide by zero,
\* on the root of a negative number and on a fractional power of a
\* negative base, and only there; a tool that fails returns no result, any
\* other call returns a number, and power(-2, 3) is -8.
C21_DomainErrors ==
  (call.fn = "run_tool" /\ call.name \in ArithToolNames /\ call.done)
    => /\ call.out.exc # "none" <=> OutOfDomain(call)
       /\ call.out.exc # "none" => call.out.v = JNull
       /\ call.out.exc = "none" => call.out.v.k = "num"
       /\ (call.name = n_power /\ call.kwargs = [a |-> <<-2, 1>>, b |-> <<3, 1>>])
            => call.out.v = JNum(<<-8, 1>>)

\* One unit at decimal position nd: 10^(-nd).
UnitAt(nd) == IF nd >= 0 THEN <<1, IntPow(10, nd)>> ELSE <<IntPow(10, -nd), 1>>

\* x lies exactly halfway between two neighbouring multiples of the unit.
Halfway(x, nd) ==
  LET y == RDiv(x, UnitAt(nd))
  IN RSub(y, Int2Rat(Floor(y))) = <<1, 2>>

\* Of the two neighbours of a tie, the one farther from zero.
FartherNeighbour(x, nd) ==
  LET h == RMul(<<1, 2>>, UnitAt(nd))
  IN IF x[1] < 0 THEN RSub(x, h) ELSE RAdd(x, h)

RoundCalled == call.fn = "run_tool" /\ call.name = n_round /\ call.done

\* C22: round(x, ndigits) returns, for an x exactly halfway between two
\* neighbouring values at the requested position, the neighbour farther
\* from zero, for positive, zero and negative ndigits.
C22_HalfAwayFromZero ==
  RoundCalled =>
    LET x  == call.kwargs["x"]
        nd == call.kwargs["ndigits"][1]
    IN /\ call.out.exc = "none"
       /\ RIsInt(RDiv(call.out.v.n, UnitAt(nd)))
       /\ Halfway(x, nd) => call.out.v.n = FartherNeighbour(x, nd)

\* round(-2.5, 0) has returned -3.
C22_Witness ==
  /\ RoundCalled /\ call.kwargs = [x |-> <<-5, 2>>, ndigits |-> <<0, 1>>]
  /\ call.out = Ok(JNum(<<-3, 1>>))

\* A list without every element equal to an earlier one, in first-seen order.
RECURSIVE FirstSeen(_, _)
FirstSeen(docs, acc) ==
  IF docs = <<>> THEN acc
  ELSE FirstSeen(Tail(docs),
                 IF \E i \in 1..Len(acc) : acc[i] = Head(docs) THEN acc
                 ELSE Append(acc, Head(docs)))

Merged == call.fn = "hybrid_merge" /\ call.done

\* C23: the merge returns bm25's documents followed by the dense ones,
\* without every document whose (title, text) pair equals that of an
\* earlier one, in first-seen order, cut to the first k (stated for
\* k >= 1; the cut at k = 0 is C24's).
C23_MergeDedupes ==
  (Merged /\ call.k >= 1) =>
    call.out = Ok(SliceTo(FirstSeen(call.bm25 \o call.dense, <<>>), call.k))

\* C24: for every k >= 0 the merge returns at most k documents.
C24_AtMostK == Merged => Len(call.out.v) <= call.k

Retrieved == call.fn = "retrieve" /\ call.done

\* Every order in which the documents of l can have been loaded.
Reorderings(l) ==
  {[i \in 1..Len(l) |-> l[p[i]]] :
     p \in {f \in [1..Len(l) -> 1..Len(l)] : \A i, j \in 1..Len(l) : f[i] = f[j] => i = j}}

ScoreOf(d) == score(call.query, d.title \o <<" ">> \o d.text)

\* out is in descending score, equal scores in ascending (doc_id, title).
Ranked(out) ==
  \A i, j \in 1..Len(out) :
    i < j => \/ ScoreOf(out[i]) > ScoreOf(out[j])
             \/ ScoreOf(out[i]) = ScoreOf(out[j]) /\ ~DkeyLess(out[j], out[i])

LoadOrderFree ==
  \A l \in Reorderings(call.docs) : retrieve(l, call.query, call.k) = call.out.v

\* No two loaded documents have the same (doc_id, title).
DistinctKeys ==
  \A i, j \in 1..Len(call.docs) :
    (call.docs[i].doc_id = call.docs[j].doc_id /\ call.docs[i].title = call.docs[j].title)
      => i = j

Min(a, b) == IF a < b THEN a ELSE b

\* C26: retrieve(query, k) returns exactly min(k, number of documents)
\* documents: the positively scored ones in rank order, then the remaining
\* ones in tie-break order.
C26_PadsToK ==
  Retrieved =>
    /\ Len(call.out.v) = Min(call.k, Len(call.docs))
    /\ Ranked(call.out.v)
    /\ \A d \in {call.docs[i] : i \in 1..Len(call.docs)} :
         (\A i \in 1..Len(call.out.v) : call.out.v[i] # d)
           => \A i \in 1..Len(call.out.v) : ScoreOf(call.out.v[i]) >= ScoreOf(d)

Quoted == call.fn = "quote" /\ call.done

\* The text of the document a quote call names.
QuotedText ==
  QuoteFiles[CHOOSE f \in 1..2 : JStr(QuoteFiles[f].doc_id) = call.kwargs["doc_id"]].text

\* An integer bound clamped to [0, n].
ClampTo(v, n) ==
  IF v.k = "big" THEN (IF v.n[1] > 0 THEN n ELSE 0)
  ELSE IF v.n[1] < 0 THEN 0 ELSE Min(v.n[1], n)

\* C27: for any integers start and end, quote returns text[s:e] with s and e
\* clamped to [0, n], e raised to s if below it and lowered to s + 400 if
\* above it; the result has at most 400 characters and the call does not
\* fail.
C27_QuoteClamps ==
  Quoted =>
    LET n  == Len(QuotedText)
        s  == ClampTo(call.kwargs["start"], n)
        e0 == ClampTo(call.kwargs["end"], n)
        e  == IF e0 < s THEN s ELSE Min(e0, s + 400)
    IN /\ call.out.exc = "none"
       /\ call.out.v = JStr(SubSeq(QuotedText, s + 1, e))
       /\ Len(call.out.v.s) <= 400

\* The keys of meta in the trajectory schema.
META_KEYS == {"model", "max_steps", "afm_version", "timestamp"}

\* C28: every record written by a main has the keys id, task, question,
\* steps, answer and meta, every step has function, thought, tool_call and
\* tool_result, meta has model, max_steps, afm_version and timestamp, and
\* validate_line accepts the record.
C28_RecordSchema ==
  \A n \in 1..Len(fout) :
    /\ REQUIRED_KEYS \subseteq DOMAIN fout[n]
    /\ \A i \in 1..Len(fout[n].steps) : REQUIRED_STEP_KEYS \subseteq DOMAIN fout[n].steps[i]
    /\ META_KEYS \subseteq DOMAIN fout[n].meta
    /\ validate_line(fout[n]) = "none"

Extracted == call.fn = "extract_final_answer" /\ call.done

\* The response without surrounding whitespace and code-fence backticks.
Unfenced == StripSet(call.text, Space \cup {Backtick})

\* Where opening tags start, and where closing tags start, in Unfenced.
OpenTags  == {i \in 1..Len(Unfenced) : OpenTag(Unfenced, i) # 0}
CloseTags == {j \in 1..Len(Unfenced) : CloseTag(Unfenced, j) # 0}

\* An opening tag with a closing tag after its end.
HasPair == \E i \in OpenTags : \E j \in CloseTags : j >= OpenTag(Unfenced, i)

\* The text between the first opening tag and the first closing tag that
\* follows it.
Between ==
  LET i == CHOOSE a \in OpenTags : \A b \in OpenTags : a <= b
      g == OpenTag(Unfenced, i)
      after == {j \in CloseTags : j >= g}
      c == CHOOSE a \in after : \A b \in after : a <= b
  IN SubSeq(Unfenced, g, c - 1)

\* C29: for a response that, stripped of surrounding whitespace and
\* code-fence backticks, contains a final tag pair (any letter case,
\* optional whitespace inside the brackets), extraction returns the trimmed
\* text between the first opening tag and the first closing tag after it;
\* for an empty response or one without a pair it fails.
C29_FinalExtraction ==
  Extracted =>
    IF HasPair THEN call.out = Ok(JStr(Strip(Between)))
    ELSE call.out.exc = "ValueError"

\* A response with spaced tags in upper and mixed case gave the trimmed
\* text between them.
C29_Witness ==
  /\ Extracted
  /\ call.text = (<<"<", " ", "F", "I", "N", "A", "L", " ", ">">> \o <<" ", "7", " ">> \o <<"<", "/", " ", "F", "i", "n", "a", "l", " ", ">">>)
  /\ call.out = Ok(JStr(<<"7">>))

BlockDone == call.fn = "extract_json_block" /\ call.done

\* The number of opening minus closing braces in text[i..j].
RECURSIVE Depth(_, _, _)
Depth(text, i, j) ==
  IF j < i THEN 0
  ELSE Depth(text, i, j - 1)
         + (IF text[j] = "{" THEN 1 ELSE IF text[j] = "}" THEN -1 ELSE 0)

\* text[i..j] is a balanced brace span: it opens at i and the brace at j is
\* the one that closes it.
Balanced(text, i, j) ==
  /\ text[i] = "{" /\ text[j] = "}" /\ Depth(text, i, j) = 0
  /\ \A m \in i..(j - 1) : Depth(text, i, m) > 0

BalancedSpans(text) ==
  {ij \in (1..Len(text)) \X (1..Len(text)) : ij[1] < ij[2] /\ Balanced(text, ij[1], ij[2])}

\* C30: extract_json_block returns the first balanced brace span of the
\* text whenever the text contains one, and fails only when it contains
\* none.
C30_FirstBalancedSpan ==
  BlockDone =>
    LET spans == BalancedSpans(call.text)
    IN IF spans = {} THEN call.out.exc = "ValueError"
       ELSE LET f == CHOOSE a \in spans : \A b \in spans : a[1] <= b[1]
            IN call.out = Ok(JStr(SubSeq(call.text, f[1], f[2])))

\* The loop is left for finalization only by a stop or with the budget
\* used up, and without an error.
LoopEndsClean ==
  pc = "finalize" =>
    /\ error = "none" /\ finalCalls = 0
    /\ \/ steps # <<>> /\ IsStopStep(steps[Len(steps)])
       \/ NoStopStep /\ it = max_steps

\* A solve that returned went through finalization: one oracle call, or
\* two in the variants that retry.
ReturnedAfterFinalization ==
  pc = "done" =>
    /\ error = "none"
    /\ finalCalls >= 1
    /\ finalCalls <= (IF variant \in TaggedFinalizers THEN 2 ELSE 1)

\* Finalization is entered from the loop body, once, and after it has
\* been entered no planner call and no tool execution is made.
FinalizationLast ==
  /\ (pc # "finalize" /\ pc' = "finalize") => (pc = "body" /\ finalCalls = 0)
  /\ LoopOver => /\ planCalls' = planCalls /\ toolCalls' = toolCalls
                 /\ toolLog' = toolLog /\ steps' = steps
                 /\ pc' \notin {"plan", "body"}
                 /\ pc # "finalize" => pc' # "finalize"

\* C31: a solve whose loop ends without failure, by a stop or with the
\* budget used up, goes through finalization exactly once, after the last
\* planner call and the last tool execution; the used-up budget is no
\* error, and nothing of the loop runs once finalization has started.
C31_FinalizationOnce ==
  /\ [](LoopEndsClean /\ ReturnedAfterFinalization)
  /\ [][FinalizationLast]_vars
  /\ (pc = "finalize") ~> (finalCalls >= 1)

\* A legal_agent solve that used up its budget without a stop and returned
\* from the retry of its finalization.
C31_Witness ==
  /\ variant = "legal_agent" /\ pc = "done" /\ NoStopStep
  /\ it = max_steps /\ Len(steps) = max_steps /\ finalCalls = 2
  /\ error = "none"

\* The messages solve starts with: the system prompt and the question, or
\* the question alone in the Math_agent variants.
InitialLen == IF variant \in {"math_agent", "legal_agent"} THEN 2 ELSE 1

\* The final question of the Math_agent variants is the last message.
AskedFinal == history[Len(history)].tag = "final_question"

\* What the loop has appended to the history.
Appended ==
  SubSeq(history, InitialLen + 1, Len(history) - (IF AskedFinal THEN 1 ELSE 0))

\* The payload of an observation built on its own is at most OBS_CAP
\* characters of the result's JSON text, all of it when it is that short.
PayloadCapped ==
  (call.fn = "observation" /\ call.done) =>
    LET payload == SubSeq(call.out.v.s, Len(ObsPrefix) + 1, Len(call.out.v.s))
        dumped  == json_dumps(call.result)
    IN /\ SubSeq(call.out.v.s, 1, Len(ObsPrefix)) = ObsPrefix
       /\ Len(payload) <= 2000
       /\ IsPrefix(payload, dumped)
       /\ Len(dumped) <= 2000 => payload = dumped

ObservedUpTo(n) ==
  Cardinality({m \in 1..n : Appended[m].tag = "Observation"})

PlanName == NormName(plan.name)

ResolvedArgs ==
  IF variant = "math_agent" THEN normalize_args(PlanName, plan.args, env)
  ELSE LET res == [key \in DOMAIN plan.args |->
                     IF variant = "Math_agent"
                     THEN Math_resolve_arg(plan.args[key], env, last_value)
                     ELSE clean_resolve_arg(plan.args[key], env)]
       IN IF \E key \in DOMAIN res : res[key].exc # "none" THEN NFail("ValueError")
          ELSE NArgs([key \in DOMAIN res |-> res[key].q])

\* The plan in hand names a supported tool other than stop.
NameValidated ==
  /\ plan.shape = "ok"
  /\ PlanName # n_stop
  /\ PlanName \in (IF variant = "math_agent" THEN math_VALID
                   ELSE IF variant = "Math_agent" THEN Math_VALID
                   ELSE clean_VALID)

AllNumbers(args) == \A key \in DOMAIN args : args[key].k = "num"

\* A step that invokes run_tool: the name was validated, every argument
\* resolved, and a Step recorded by it carries the resolved numbers.
ToolAfterResolution ==
  (variant \in MathVariants /\ toolCalls' # toolCalls) =>
    /\ pc = "body" /\ NameValidated
    /\ ResolvedArgs.exc = "none"
    /\ Len(steps') > Len(steps) =>
         LET st == steps'[Len(steps')]
         IN /\ DOMAIN st.tool_call.args = DOMAIN ResolvedArgs.args
            /\ \A key \in DOMAIN st.tool_call.args :
                 st.tool_call.args[key] = JNum(ResolvedArgs.args[key])

ToolOnPlan ==
  math_run_tool(PlanName, [key \in DOMAIN plan.args |-> plan.args[key].n])

\* The plan in hand names a non-stop tool of VALID, holds exactly the keys
\* that tool requires with numeric values, and the values lie in the
\* tool's domain.
KeyedInDomain ==
  /\ variant \in MathVariants /\ pc = "body" /\ NameValidated
  /\ PlanName \in {n_add, n_subtract, n_multiply, n_divide, n_power,
                   n_square, n_sqrt}
  /\ DOMAIN plan.args = (IF PlanName \in {n_square, n_sqrt} THEN {"x"}
                         ELSE {"a", "b"})
  /\ AllNumbers(plan.args)
  /\ ToolOnPlan.exc = "none"

\* The iteration records the Step of the tool's result under the plan's
\* keys and solve goes on.
KeyedStep ==
  KeyedInDomain =>
    /\ pc' # "failed"
    /\ steps' = Append(steps, AFMStep(PlanName, plan.thought, PlanName,
                                      plan.args, ToolOnPlan.v))

\* C34: in each math agent variant an action naming a non-stop tool of
\* VALID whose args hold exactly that tool's required keys ({a, b} for add,
\* subtract, multiply, divide, power; {x} for square, sqrt) with numeric
\* values inside the tool's domain passes argument checking, reaches the
\* tool under matching parameter names and is recorded as a Step with the
\* tool's result.
C34_KeyedPlanSucceeds == [][KeyedStep]_vars

\* Math_agent's loop body holds a plan that passed the key check, is not a
\* stop, and has an argument that does not resolve.
ResolutionRaises ==
  /\ variant = "Math_agent" /\ pc = "body"
  /\ require_args_for_action(PlanName, plan.args)
  /\ PlanName # n_stop
  /\ ResolvedArgs.exc # "none"

\* What such an iteration changes: two messages more, one iteration less.
ErrorPairOnly ==
  ResolutionRaises =>
    /\ Len(history') = Len(history) + 2
    /\ SubSeq(history', 1, Len(history)) = history
    /\ history'[Len(history) + 1] = PlanJson(plan)
    /\ history'[Len(history) + 1].role = "assistant"
    /\ history'[Len(history) + 2].role = "system"
    /\ history'[Len(history) + 2].tag = "Error"
    /\ UNCHANGED <<steps, last_value, env, toolCalls, toolLog, planCalls,
                   error, answer>>
    /\ it' = it + 1
    /\ pc' = (IF it + 1 < max_steps THEN "plan" ELSE "finalize")

\* C35: in Math_agent.agent.solve an iteration whose argument resolution
\* fails appends exactly two messages to the history, the plan JSON as
\* assistant and then a system message starting with Error:, leaves the
\* Steps and the carry unchanged, executes no tool, and consumes exactly
\* one unit of the step budget.
C35_FailedResolutionFrame == [][ErrorPairOnly]_vars

\* A Math_agent loop just after a first iteration whose resolution failed.
C35_Witness ==
  /\ variant = "Math_agent" /\ pc = "plan" /\ it = 1 /\ planCalls = 1
  /\ steps = <<>> /\ toolCalls = 0 /\ last_value = None
  /\ Len(history) = 3 /\ history[3].tag = "Error"

\* The conversation as the loop left it: what it holds when the
\* finalization begins.
AtFinalization == pc \in {"finalize", "retry"}

\* A step of _finalize_answer leaves the history list as it is.
HistoryKept ==
  (variant \in TaggedFinalizers /\ AtFinalization) => history' = history

\* The messages of the finalization calls made so far: the first was sent
\* the history and the formatting instruction, the retry the same history
\* and the correction alone.
FinalMessages ==
  (variant \in TaggedFinalizers /\ finalCalls >= 1) =>
    /\ Len(finalInput) = finalCalls
    /\ finalInput[1] = Append(history, FinalPrompt)
    /\ finalCalls = 2 =>
         /\ finalInput[2] = Append(history, RetryPrompt)
         /\ \A i \in 1..Len(finalInput[2]) :
              /\ finalInput[2][i] # FinalPrompt
              /\ finalInput[2][i].tag # "final_reply"

\* C36: in math_agent and legal_agent _finalize_answer leaves the history
\* unchanged; the first call is sent the history plus the formatting
\* instruction, and the retry the same history plus the corrective
\* instruction only, without the first instruction and without the
\* malformed first reply.
C36_FinalizationFrame == []FinalMessages /\ [][HistoryKept]_vars

\* A retried finalization after a loop that recorded a Step: two calls were
\* made on a history holding an observation.
C36_Witness ==
  /\ variant = "math_agent" /\ finalCalls = 2 /\ pc = "done"
  /\ Len(finalInput) = 2 /\ Len(history) = 4
  /\ history[4].tag = "Observation"
  /\ finalInput[2][5] = RetryPrompt

\* The history argument of the latest planner call (the Math_agent variants
\* put their system prompt in front of it inside the call).
HistoryGiven ==
  IF variant \in {"Math_agent", "agent_clean"} THEN Tail(plannerInput)
  ELSE plannerInput

\* The loop ended with a stop Step.
EndedWithStop == steps # <<>> /\ IsStopStep(steps[Len(steps)])

\* The instruction the variant adds for its first call after the loop.
FinalInstruction ==
  IF variant \in {"Math_agent", "agent_clean"} THEN FinalQuestion
  ELSE FinalPrompt

\* After a stop the conversation is the one the stopping planner call was
\* given, and so is what the first call after the loop is sent, its
\* instruction apart.
StopAppendsNothing ==
  EndedWithStop =>
    /\ pc \in {"finalize", "retry", "done", "failed"}
    /\ SubSeq(history, 1, Len(history) - (IF AskedFinal THEN 1 ELSE 0))
         = HistoryGiven
    /\ \A i \in 1..Len(history) : history[i] # PlanJson(planReplies[Len(planReplies)])
    /\ finalCalls >= 1 => finalInput[1] = Append(HistoryGiven, FinalInstruction)

\* C37: when the loop ends with stop, neither the stop plan nor any
\* observation is appended to the history: the history handed to the
\* finalization is the history that was given to the planner call that
\* returned stop.
C37_StopAppendsNothing == StopAppendsNothing

\* A legal_agent solve that stopped after one recorded Step and has made
\* its first finalization call.
C37_Witness ==
  /\ variant = "legal_agent" /\ Len(steps) = 2 /\ IsStopStep(steps[2])
  /\ finalCalls = 1 /\ Len(history) = 4 /\ plannerInput = history
  /\ finalInput[1] = Append(plannerInput, FinalPrompt)

\* The keys of the plan in hand whose value is the symbol r.
CarryKeys ==
  {key \in DOMAIN plan.args :
     plan.args[key].k = "str" /\ Strip(plan.args[key].s) = <<"r">>}

\* Math_agent's loop body holds a checked non-stop plan that names r, in a
\* solve whose question assigns r.
NamesCarry ==
  /\ variant = "Math_agent" /\ pc = "body"
  /\ "r" \in DOMAIN env
  /\ require_args_for_action(PlanName, plan.args)
  /\ PlanName # n_stop
  /\ CarryKeys # {}

\* Before the first successful step r does not resolve, whatever the
\* question assigns; afterwards a Step recorded for the plan holds the
\* latest tool result under r's keys.
CarryFirst ==
  NamesCarry =>
    IF toolLog = <<>>
    THEN /\ steps' = steps /\ toolCalls' = toolCalls
         /\ Len(history') = Len(history) + 2
         /\ history'[Len(history')].tag = "Error"
    ELSE Len(steps') > Len(steps) =>
           \A key \in CarryKeys :
             steps'[Len(steps')].tool_call.args[key] = toolLog[Len(toolLog)].result

\* C38: in Math_agent.agent.resolve_arg the carry symbol r takes precedence
\* over a variable r defined by the question: r resolves to the most recent
\* tool result once one exists, and fails to resolve before the first
\* successful step even when the question assigns r.
C38_CarryPrecedence == [][CarryFirst]_vars

\* A Math_agent solve of the question r=2 whose second Step resolved r to
\* the first Step's result, which is not 2.
C38_Witness ==
  /\ variant = "Math_agent" /\ "r" \in DOMAIN env
  /\ Len(steps) = 2 /\ ~IsStopStep(steps[2])
  /\ "a" \in DOMAIN steps[2].tool_call.args
  /\ steps[2].tool_call.args["a"] = steps[1].tool_result
  /\ steps[1].tool_result # JNum(env["r"])
  /\ \E i \in 1..Len(history) :
       /\ history[i].tag = "plan_json"
       /\ "a" \in DOMAIN history[i].plan.args
       /\ history[i].plan.args["a"] = JStr(<<"r">>)

\* The output file of a main: the records of the earlier examples and the
\* one of the example in hand.
File == other.file \o fout

\* The examples a main calls solve on, in dataset order.
SolvedExamples ==
  SelectSeq([i \in 1..MaxData |-> Example(i)],
            LAMBDA ex : ~(variant = "legal_agent" /\ Asked(ex) = <<>>))

\* The position among them of the example whose solve is running or over.
Current == CHOOSE k \in 1..Len(SolvedExamples) : SolvedExamples[k].id = qid

\* The file holds the records of the first solved examples, in dataset
\* order; once a solve has raised, these are the records of the examples
\* before it and no other.
RecordsInOrder ==
  other.pc = "main" =>
    /\ \A k \in 1..Len(File) :
         /\ File[k].id = SolvedExamples[k].id
         /\ File[k].question = Asked(SolvedExamples[k])
    /\ Len(other.file) = Current - 1
    /\ pc = "failed" => Len(File) = Current - 1

\* Nothing runs after a solve has raised: main does not catch it.
FailureEndsMain == (other.pc = "main" /\ pc = "failed") => UNCHANGED vars

\* C39: in each agent main a failure of solve on the i-th question is not
\* caught: the records of questions 1..i-1 remain in the output file in
\* dataset order, and no record is produced for question i or for any
\* later question.
C39_FailureEndsMain == []RecordsInOrder /\ [][FailureEndsMain]_vars

\* A legal_agent main whose solve of the second example raised: the file
\* holds the record of the first example only, and an example is left.
C39_Witness ==
  /\ other.pc = "main" /\ variant = "legal_agent"
  /\ pc = "failed" /\ qid = Example(2).id
  /\ Len(File) = 1 /\ File[1].id = Example(1).id
====
